---- MODULE Spec2Model ----
(***************************************************************************)
(* A model of rut, a Git-compatible version-control engine.                *)
(*                                                                         *)
(*   SpecIndex  the in-memory Index (src/src/index.rs): add_entry and      *)
(*              remove with the directory bookkeeping.                     *)
(*   SpecLock   the file layer's LockFile (src/src/file.rs): acquire,      *)
(*              write and drop by several processes, with a reader.        *)
(*   SpecRepo   the operations add, rm, commit and status                  *)
(*              (src/src/{add,rm,commit,status}.rs) run by several         *)
(*              processes on one repository.                               *)
(***************************************************************************)
EXTENDS Integers, Sequences, FiniteSets, TLC

\* ------------------------------------------------------------------ bounds

\* Longest path, in components, of an index entry.
MaxDepth == 3
\* Number of add_entry / remove calls made on the Index under SpecIndex.
MaxOps == 3
\* Number of write calls made on one LockFile under SpecLock.
MaxWrites == 1
\* SpecRepo: number of commands started in one behaviour.
MaxCmds == 3
\* SpecQuery: the longest chain of commits of a repository.
MaxChain == 3
\* The longest list of entries a tree is made of.
MaxEntries == 3
\* SpecDiff: the most lines of a sequence that is compared.
MaxLines == 3
\* SpecChunks: the most edits of an edit script that is chunked.
MaxEdits == 8

\* ------------------------------------------------------------------- paths

\* Path components.
Names == {"a", "b"}

\* Object ids: an id stands for the SHA-1 of the content it names.
ObjectIds == {"o1", "o2"}

None == "None"

RECURSIVE PathsOfLen(_)
PathsOfLen(n) ==
    IF n = 0 THEN {<<>>}
    ELSE {Append(p, c) : p \in PathsOfLen(n - 1), c \in Names}

\* The relative paths an index entry can have: 1..MaxDepth components.
Paths == UNION {PathsOfLen(n) : n \in 1..MaxDepth}

\* Path::parent: the path without its last component; None for the empty path.
parent(path) ==
    IF path = <<>> THEN None ELSE SubSeq(path, 1, Len(path) - 1)

\* Path::file_name: the last component.
file_name(path) == path[Len(path)]

\* Path::join(child).
join(path, child) == Append(path, child)

\* Path::ancestors: the path itself, then its parent, ..., down to the empty
\* path, in that order.
ancestors(path) == [i \in 1..(Len(path) + 1) |-> SubSeq(path, 1, Len(path) + 1 - i)]

\* a is a proper ancestor (strict component prefix) of p.
IsProperPrefix(a, p) ==
    /\ Len(a) < Len(p)
    /\ SubSeq(p, 1, Len(a)) = a

\* A function without one key.
MapRemove(f, k) == [x \in (DOMAIN f) \ {k} |-> f[x]]

\* A function with one key set.
MapInsert(f, k, v) == (k :> v) @@ f

\* ------------------------------------------------------------------- Index

\* Index::new.
NewIndex == [entries |-> <<>>, directories |-> <<>>]

\* Index::insert_into_directories_map, on the directory map alone.
RECURSIVE insert_into_directories_map(_, _)
insert_into_directories_map(dirs, path) ==
    IF path = <<>> THEN dirs
    ELSE LET directory == parent(path)
             subdirs == IF directory \in DOMAIN dirs THEN dirs[directory] ELSE {}
             inserted == MapInsert(dirs, directory, subdirs \cup {file_name(path)})
         IN  insert_into_directories_map(inserted, directory)

\* Mutant: the child name is never taken out of the parent's set.
remove_from_directories_map_KeepsName(dirs, path) == dirs

\* Index::remove_from_directories_map, on the directory map alone.
RECURSIVE remove_from_directories_map(_, _)
remove_from_directories_map(dirs, path) ==
    IF path = <<>> THEN dirs
    ELSE LET par == parent(path)
         IN  IF par \notin DOMAIN dirs THEN dirs
             ELSE LET children == dirs[par] \ {file_name(path)}
                  IN  IF children = {}
                      THEN remove_from_directories_map(MapRemove(dirs, par), par)
                      ELSE [dirs EXCEPT ![par] = children]

\* Index::remove.
remove(index, path) ==
    IF path \in DOMAIN index.entries
    THEN [entries |-> MapRemove(index.entries, path),
          directories |-> remove_from_directories_map(index.directories, path)]
    ELSE index

\* The iteration order of a HashSet is unspecified: the next element taken
\* from S, under one of two orders.
NextOf(S, rev) ==
    LET first == CHOOSE x \in S : TRUE
    IN  IF rev /\ S \ {first} # {} THEN CHOOSE x \in S \ {first} : TRUE ELSE first

\* Index::remove_directory: the key goes first, then every child is removed
\* as an entry and as a directory.
RECURSIVE remove_directory(_, _, _)
RECURSIVE remove_children(_, _, _, _)
remove_children(index, path, child_names, rev) ==
    IF child_names = {} THEN index
    ELSE LET child == NextOf(child_names, rev)
             removed == remove(index, join(path, child))
             purged == remove_directory(removed, join(path, child), rev)
         IN  remove_children(purged, path, child_names \ {child}, rev)

remove_directory(index, path, rev) ==
    IF path \in DOMAIN index.directories
    THEN remove_children(
             [index EXCEPT !.directories = MapRemove(index.directories, path)],
             path, index.directories[path], rev)
    ELSE index

\* The loop of discard_conflicting_entries over path.ancestors().
RECURSIVE remove_ancestors(_, _, _)
remove_ancestors(index, anc, i) ==
    IF i > Len(anc) THEN index
    ELSE remove_ancestors(remove(index, anc[i]), anc, i + 1)

\* Mutant: only the ancestors are discarded, not the directory at the path.
discard_conflicting_entries_AncestorsOnly(index, path, rev) ==
    remove_ancestors(index, ancestors(path), 1)

\* Index::discard_conflicting_entries.
discard_conflicting_entries(index, path, rev) ==
    remove_ancestors(remove_directory(index, path, rev), ancestors(path), 1)

\* Mutant: the directory map is not updated on insertion.
add_entry_NoDirectories(index, entry, rev) ==
    LET discarded == discard_conflicting_entries(index, entry.path, rev)
    IN  [entries |-> MapInsert(discarded.entries, entry.path, entry),
         directories |-> discarded.directories]

\* Index::add_entry.
add_entry(index, entry, rev) ==
    LET discarded == discard_conflicting_entries(index, entry.path, rev)
    IN  [entries |-> MapInsert(discarded.entries, entry.path, entry),
         directories |-> insert_into_directories_map(discarded.directories, entry.path)]

\* Index::has_entry.
has_entry(index, path) == path \in DOMAIN index.entries

\* Index::is_tracked_directory.
is_tracked_directory(index, path) == path \in DOMAIN index.directories

\* IndexEntry::new: the path, the object id and, of the stat fields taken
\* from the metadata of the file, the mtime.
IndexEntry(path, object_id, mtime) ==
    [path |-> path, object_id |-> object_id, mtime |-> mtime]


\* -------------------------------------------------------------- file layer

\* A file that does not exist.
NoFile == "NoFile"

\* File names are their dot-separated parts: index is <<"index">> and file.txt
\* is <<"file", "txt">>.  Path::extension is the last part of a name that has
\* more than one.
extension(name) == IF Len(name) > 1 THEN name[Len(name)] ELSE None

\* format!("{:?}", ext): the Debug form of the extension, in double quotes.
DebugFormat(ext) == <<"\"", ext, "\"">>

\* PathBuf::set_extension: the new extension replaces the old one, or is added
\* to a name that has none.
set_extension(name, ext) ==
    IF Len(name) > 1 THEN SubSeq(name, 1, Len(name) - 1) \o ext ELSE name \o ext

\* The lockfile path LockFile::acquire computes for a path.
lockfile_path(path) ==
    LET base_extension == <<"lock">>
        lockfile_extension ==
            IF extension(path) # None
            THEN <<DebugFormat(extension(path))>> \o base_extension
            ELSE base_extension
    IN  set_extension(path, lockfile_extension)

\* The content of a file, or NoFile.
read_file(files, name) == IF name \in DOMAIN files THEN files[name] ELSE NoFile

\* fs::rename: the target is replaced in one step and the source is gone.
rename(files, from, to) == MapInsert(MapRemove(files, from), to, files[from])

\* fs::remove_file.
remove_file(files, name) == MapRemove(files, name)

\* A LockFile value.
LockFile(path, has_write) ==
    [path |-> path, lockfile_path |-> lockfile_path(path), has_write |-> has_write]

\* Mutant: the lockfile is opened with create instead of create_new, so an
\* existing lockfile is no obstacle.
acquire_NotExclusive(files, path) ==
    [ok |-> TRUE,
     files |-> MapInsert(files, lockfile_path(path), <<>>),
     lock |-> LockFile(path, FALSE),
     message |-> None]

\* LockFile::acquire with handle_lockfile_create_failure: the lockfile is
\* created empty unless it exists, and then the call fails with a fatal
\* error that names it.
acquire(files, path) ==
    IF lockfile_path(path) \in DOMAIN files
    THEN [ok |-> FALSE,
          files |-> files,
          lock |-> None,
          message |-> <<"Unable to create '", lockfile_path(path), "': File exists.">>]
    ELSE [ok |-> TRUE,
          files |-> MapInsert(files, lockfile_path(path), <<>>),
          lock |-> LockFile(path, FALSE),
          message |-> None]

\* LockFile::write: has_write is set, then write_all appends the text to the
\* lockfile; an I/O error stops it after `written` bytes, written < Len(text).
write(lock, files, text, written) ==
    [lock |-> [lock EXCEPT !.has_write = TRUE],
     files |-> [files EXCEPT ![lock.lockfile_path] = @ \o SubSeq(text, 1, written)],
     ok |-> written = Len(text)]

\* Drop for LockFile.
drop(lock, files) ==
    IF lock.has_write
    THEN rename(files, lock.lockfile_path, lock.path)
    ELSE remove_file(files, lock.lockfile_path)

\* The buffer file of atomic_write: the path with the extension
\* "<extension, or ext when there is none>.rut-tmp-buffer".  The name depends
\* on the path alone: every writer of a path uses the same buffer file.
buffer_file(path) ==
    LET buffer_file_extension ==
            <<IF extension(path) # None THEN extension(path) ELSE "ext", "rut-tmp-buffer">>
    IN  set_extension(path, buffer_file_extension)

\* Mutant: the file is opened with create and truncate, whether it exists or not.
create_new_NotExclusive(files, path) == [ok |-> TRUE, files |-> MapInsert(files, path, <<>>)]

\* create_file's OpenOptions::new().create_new(true).write(true).open(path):
\* the file is created empty, in one step, unless the path exists.
create_new(files, path) ==
    IF path \in DOMAIN files THEN [ok |-> FALSE, files |-> files]
    ELSE [ok |-> TRUE, files |-> MapInsert(files, path, <<>>)]

\* Mutant: the object file is never found.
exists_Never(files, path) == FALSE

\* Path::exists.
exists(files, path) == path \in DOMAIN files

\* atomic_write: the content goes to a buffer file next to the path, which is
\* then renamed onto the path.  When fs::write fails (ok = FALSE) the buffer
\* file is left behind, empty, and the path is not touched.
atomic_write(files, path, content, ok) ==
    IF ok
    THEN rename(MapInsert(files, buffer_file(path), content), buffer_file(path), path)
    ELSE MapInsert(files, buffer_file(path), <<>>)

\* ----------------------------------------------------------------- objects

\* Option values: Some(x) and Option::None.
Some(x) == <<x>>
Nothing == <<>>

\* The sha1 of an object format; taken to be injective.
sha1_hash(bytes) == <<"sha1", bytes>>

\* hex::to_hex_string(object_id.bytes()) and ObjectId::from_sha, its inverse.
to_hex_string(object_id) == <<"hex", object_id>>
from_sha(hex) == hex[2]

\* Blob::new and its object format.
Blob(bytes) ==
    LET object_format == <<"blob", bytes>>
    IN  [object_format |-> object_format, id |-> sha1_hash(object_format)]

\* The order of names and of paths (PathBuf compares component by component).
NameOrder == <<"a", "b">>
NameRank(name) == CHOOSE i \in 1..Len(NameOrder) : NameOrder[i] = name
PathLess(p, q) ==
    \E i \in 1..(Len(p) + 1) :
        /\ i <= Len(q)
        /\ \A k \in 1..(i - 1) : p[k] = q[k]
        /\ i <= Len(p) => NameRank(p[i]) < NameRank(q[i])

\* The paths of a set, sorted.
RECURSIVE sort_paths(_)
sort_paths(S) ==
    IF S = {} THEN <<>>
    ELSE LET first == CHOOSE p \in S : \A q \in S \ {p} : PathLess(p, q)
         IN  <<first>> \o sort_paths(S \ {first})

\* TreeEntry::new: the name is the file name of the path.
TreeEntry(path, object_id, mode) ==
    [name |-> file_name(path), object_id |-> object_id, mode |-> mode]

\* The mode strings of a tree's object format.
ModeString == [Directory |-> "40000", Regular |-> "100644"]
parse_mode(mode_string) == IF mode_string = "40000" THEN "Directory" ELSE "Regular"

\* Tree::to_object_format: mode, name and id of every entry, in order.
Tree_to_object_format(entries) ==
    <<"tree", [i \in 1..Len(entries) |->
                  <<ModeString[entries[i].mode], entries[i].name, entries[i].object_id>>]>>

\* The entries sorted by name, as Tree::new sorts them.
RECURSIVE sort_by_name(_)
sort_by_name(entries) ==
    IF entries = <<>> THEN <<>>
    ELSE LET n == Len(entries)
             i == CHOOSE i \in 1..n :
                      \A k \in 1..n : NameRank(entries[i].name) <= NameRank(entries[k].name)
         IN  <<entries[i]>> \o
             sort_by_name([k \in 1..(n - 1) |-> IF k < i THEN entries[k] ELSE entries[k + 1]])

\* Tree::new.
Tree(entries) ==
    LET mutable_entries == sort_by_name(entries)
        object_format == Tree_to_object_format(mutable_entries)
    IN  [entries |-> mutable_entries, object_format |-> object_format,
         id |-> sha1_hash(object_format)]

\* Commit::to_object_format: the parent line is there only for Some(parent).
Commit_to_object_format(tree, message, parent_commit) ==
    IF parent_commit # Nothing
    THEN <<"commit", <<"tree", tree>>, <<"parent", parent_commit[1]>>, <<"message", message>>>>
    ELSE <<"commit", <<"tree", tree>>, <<"message", message>>>>

\* Commit::new; author and time are the same for every commit.
Commit(tree, message, parent_commit) ==
    LET object_format == Commit_to_object_format(tree, message, parent_commit)
    IN  [tree |-> tree, message |-> message, parent |-> parent_commit,
         object_format |-> object_format, id |-> sha1_hash(object_format)]

\* Database::store_object: the object format is stored under the id unless
\* it is there already; ok = FALSE is an I/O error of the write.
store_object(objects, git_object, ok) ==
    IF git_object.object_format \in objects THEN [ok |-> TRUE, objects |-> objects]
    ELSE IF ok THEN [ok |-> TRUE, objects |-> objects \cup {git_object.object_format}]
    ELSE [ok |-> FALSE, objects |-> objects]

\* Database::store_object for each object of a sequence, up to the first error.
RECURSIVE store_all(_, _, _)
store_all(objects, git_objects, ok) ==
    IF git_objects = <<>> THEN [ok |-> TRUE, objects |-> objects]
    ELSE LET stored == store_object(objects, Head(git_objects), ok)
         IN  IF stored.ok THEN store_all(stored.objects, Tail(git_objects), ok) ELSE stored

\* Database::load_data: the stored object format of an id, if there is one.
load_data(objects, object_id) ==
    IF object_id[2] \in objects THEN [ok |-> TRUE, content |-> object_id[2]]
    ELSE [ok |-> FALSE, content |-> <<>>]

\* Database::load_tree with parse_tree_entries.  The content is parsed as
\* tree entries whatever the type of the envelope; parse_tree_entry panics
\* ("Unknown mode") on the first word of the content of a blob or a commit.
load_tree(objects, tree_id) ==
    LET data == load_data(objects, tree_id)
    IN  IF ~data.ok THEN [ok |-> FALSE, panic |-> FALSE, tree |-> Tree(<<>>)]
        ELSE IF data.content[1] # "tree"
        THEN [ok |-> FALSE, panic |-> TRUE, tree |-> Tree(<<>>)]
        ELSE [ok |-> TRUE, panic |-> FALSE,
              tree |-> Tree([i \in 1..Len(data.content[2]) |->
                        [name |-> data.content[2][i][2],
                         object_id |-> data.content[2][i][3],
                         mode |-> parse_mode(data.content[2][i][1])]])]

\* Database::load_commit with parse_commit.  load_data hands over the content
\* whatever the type of the envelope; parse_commit panics ("failed to parse
\* commit") when the second line starts with neither parent nor author, as
\* with the content of a blob or a tree.
load_commit(objects, commit_id) ==
    LET data == load_data(objects, commit_id)
        content == data.content
        none == Commit(Tree(<<>>).id, "", Nothing)
    IN  IF ~data.ok THEN [ok |-> FALSE, panic |-> FALSE, commit |-> none]
        ELSE IF Len(content) < 3 THEN [ok |-> FALSE, panic |-> TRUE, commit |-> none]
        ELSE [ok |-> TRUE, panic |-> FALSE,
              commit |-> IF content[3][1] = "parent"
                         THEN Commit(content[2][2], content[4][2], Some(content[3][2]))
                         ELSE Commit(content[2][2], content[3][2], Nothing)]

\* Database::load_blob: whatever load_data returns becomes the bytes of a Blob.
load_blob(objects, blob_id) ==
    LET data == load_data(objects, blob_id)
    IN  IF ~data.ok THEN [ok |-> FALSE, panic |-> FALSE, blob |-> Blob(<<>>)]
        ELSE [ok |-> TRUE, panic |-> FALSE, blob |-> Blob(Tail(data.content))]

\* Mutant: the base path is dropped, every entry is reported by its name.
RECURSIVE extract_paths_from_tree_NoBasePath(_, _, _)
extract_paths_from_tree_NoBasePath(objects, base_path, tree) ==
    LET RECURSIVE walk(_)
        walk(i) ==
            IF i > Len(tree.entries) THEN [ok |-> TRUE, accumulator |-> <<>>]
            ELSE LET tree_entry == tree.entries[i]
                     next_path == <<tree_entry.name>>
                     rest == walk(i + 1)
                     loaded == load_tree(objects, tree_entry.object_id)
                     below == extract_paths_from_tree_NoBasePath(objects, next_path, loaded.tree)
                 IN  IF tree_entry.mode = "Directory"
                     THEN [ok |-> loaded.ok /\ below.ok /\ rest.ok,
                           accumulator |-> below.accumulator \o rest.accumulator]
                     ELSE [ok |-> rest.ok,
                           accumulator |-> <<<<tree_entry.object_id, next_path>>>> \o rest.accumulator]
    IN  walk(1)

\* Database::extract_paths_from_tree: the (id, path) pairs of the files of a
\* tree, the trees below it loaded from the database.
RECURSIVE extract_paths_from_tree(_, _, _)
extract_paths_from_tree(objects, base_path, tree) ==
    LET RECURSIVE walk(_)
        walk(i) ==
            IF i > Len(tree.entries) THEN [ok |-> TRUE, accumulator |-> <<>>]
            ELSE LET tree_entry == tree.entries[i]
                     next_path == base_path \o <<tree_entry.name>>
                     rest == walk(i + 1)
                     loaded == load_tree(objects, tree_entry.object_id)
                     below == extract_paths_from_tree(objects, next_path, loaded.tree)
                 IN  IF tree_entry.mode = "Directory"
                     THEN [ok |-> loaded.ok /\ below.ok /\ rest.ok,
                           accumulator |-> below.accumulator \o rest.accumulator]
                     ELSE [ok |-> rest.ok,
                           accumulator |-> <<<<tree_entry.object_id, next_path>>>> \o rest.accumulator]
    IN  walk(1)

\* --------------------------------------------------- objects, byte by byte
\* The object formats as the bytes they are: a byte is a number in 0..255 and
\* an ObjectId holds the 40 half-bytes of a hash.

\* The printable ASCII characters in the order of their codes, from 32 on (the
\* places of the quotes, the backslash and the backtick, which are not used,
\* hold a newline).
Printable ==
    " !\n#$%&\n()*+,-./0123456789:;<=>?@ABCDEFGHIJKLMNOPQRSTUVWXYZ[\n]^_\nabcdefghijklmnopqrstuvwxyz{|}~"

\* str::as_bytes, for the newline and the printable characters.
as_bytes(s) ==
    [i \in 1..Len(s) |->
        IF SubSeq(s, i, i) = "\n" THEN 10
        ELSE 31 + CHOOSE k \in 1..Len(Printable) :
                      SubSeq(Printable, k, k) = SubSeq(s, i, i)]

\* str::from_utf8, for bytes that are printable characters.
RECURSIVE from_utf8(_)
from_utf8(bytes) ==
    IF bytes = <<>> THEN ""
    ELSE SubSeq(Printable, Head(bytes) - 31, Head(bytes) - 31) \o from_utf8(Tail(bytes))

\* hex::unhexlify: every byte becomes its two half-bytes.
RECURSIVE unhexlify(_)
unhexlify(bytes) ==
    IF bytes = <<>> THEN <<>>
    ELSE <<Head(bytes) \div 16, Head(bytes) % 16>> \o unhexlify(Tail(bytes))

\* hex::hexlify: the half-bytes at i and i + 1 are packed into one byte, for
\* i = 0, 2, ... below len - 1.
hexlify(bytes) ==
    [k \in 1..(Len(bytes) \div 2) |-> (bytes[2 * k - 1] * 16 + bytes[2 * k]) % 256]

\* hex::to_hex_string: one hexadecimal digit for each half-byte; as text and
\* as the bytes of that text.
RECURSIVE to_hex_text(_)
to_hex_text(half_bytes) ==
    IF half_bytes = <<>> THEN ""
    ELSE SubSeq("0123456789abcdef", Head(half_bytes) + 1, Head(half_bytes) + 1)
         \o to_hex_text(Tail(half_bytes))
to_hex_bytes(half_bytes) == as_bytes(to_hex_text(half_bytes))

\* hex::from_hex_string: the value of every character as a hexadecimal digit,
\* in either case; an error when one is none.
from_hex_string(hex) ==
    LET value(chr) == {v \in 0..15 : \/ as_bytes("0123456789abcdef")[v + 1] = chr
                                     \/ as_bytes("0123456789ABCDEF")[v + 1] = chr}
    IN  IF \A i \in 1..Len(hex) : value(hex[i]) # {}
        THEN Some([i \in 1..Len(hex) |-> CHOOSE v \in value(hex[i]) : TRUE])
        ELSE Nothing

\* ObjectId::from_sha_bytes: 20 bytes are unhexlified, 40 are taken as they
\* are, any other number is an error.
from_sha_bytes(bytes) ==
    IF Len(bytes) = 20 THEN Some(unhexlify(bytes))
    ELSE IF Len(bytes) = 40 THEN Some(bytes)
    ELSE Nothing

\* hashing::sha1_hash: 20 bytes that depend on every byte of the input and on
\* its length; no two of the object formats used here have the same hash.
hash_bytes(bytes) ==
    LET RECURSIVE mix(_, _, _, _)
        \* <<the polynomial of bytes[from..to] in base, base to their number>>
        mix(from, to, base, modulus) ==
            IF from > to THEN <<0, 1>>
            ELSE IF from = to THEN <<(bytes[from] + 1) % modulus, base % modulus>>
            ELSE LET joined(left, right) ==
                         <<(left[1] * right[2] + right[1]) % modulus,
                           (left[2] * right[2]) % modulus>>
                 IN  joined(mix(from, (from + to) \div 2, base, modulus),
                          mix((from + to) \div 2 + 1, to, base, modulus))
        spread(high, low) ==
            [i \in 1..20 |-> IF i = 1 THEN high \div 256
                             ELSE IF i = 2 THEN high % 256
                             ELSE IF i = 3 THEN low \div 256
                             ELSE IF i = 4 THEN low % 256
                             ELSE (high * i + low) % 256]
    IN  spread(mix(1, Len(bytes), 263, 32749)[1], mix(1, Len(bytes), 257, 32719)[1])

\* u64 as decimal text.
RECURSIVE decimal(_)
decimal(n) == IF n < 10 THEN <<48 + n>> ELSE decimal(n \div 10) \o <<48 + (n % 10)>>

\* to_object_format: "<type> <length>\0<bytes>".
to_object_format(object_type, bytes) ==
    as_bytes(object_type) \o <<32>> \o decimal(Len(bytes)) \o <<0>> \o bytes

\* Blob::new.
Blob_new(bytes) ==
    [type |-> "blob", bytes |-> bytes,
     id |-> from_sha_bytes(hash_bytes(to_object_format("blob", bytes)))[1]]

\* Tree::new with Tree::to_object_format: the entries are sorted by name
\* (bytewise, entries of one name staying in their order), and the format is
\* "<mode> <name>\0<20 bytes of id>" for each.
Tree_new(entries) ==
    LET Less(a, b) ==
            \E i \in 1..(Len(a) + 1) :
                /\ i <= Len(b)
                /\ \A k \in 1..(i - 1) : a[k] = b[k]
                /\ i <= Len(a) => a[i] < b[i]
        RECURSIVE sort(_)
        sort(unsorted) ==
            IF unsorted = <<>> THEN <<>>
            ELSE LET n == Len(unsorted)
                     first == CHOOSE i \in 1..n :
                                  /\ \A k \in 1..n : ~Less(unsorted[k].name, unsorted[i].name)
                                  /\ \A k \in 1..(i - 1) : unsorted[k].name # unsorted[i].name
                 IN  <<unsorted[first]>> \o
                     sort([k \in 1..(n - 1) |->
                              IF k < first THEN unsorted[k] ELSE unsorted[k + 1]])
        mode_bytes == [Directory |-> as_bytes("40000"), Regular |-> as_bytes("100644"),
                       Executable |-> as_bytes("100755")]
        RECURSIVE format(_)
        format(sorted) ==
            IF sorted = <<>> THEN <<>>
            ELSE mode_bytes[Head(sorted).mode] \o <<32>> \o Head(sorted).name \o <<0>>
                 \o hexlify(Head(sorted).object_id) \o format(Tail(sorted))
        mutable_entries == sort(entries)
    IN  [type |-> "tree", entries |-> mutable_entries,
         id |-> from_sha_bytes(
                    hash_bytes(to_object_format("tree", format(mutable_entries))))[1],
         bytes |-> format(mutable_entries)]

\* Commit::new with Commit::to_object_format: the lines tree, parent (for
\* Some(parent)), author and committer, an empty line and the message.
Commit_new(tree, author, message, parent_commit, timestamp, offset) ==
    LET author_with_timestamp ==
            author.name \o as_bytes(" <") \o author.email \o as_bytes("> ")
            \o decimal(timestamp) \o <<32>> \o offset
        content ==
            as_bytes("tree ") \o to_hex_bytes(tree)
            \o (IF parent_commit # Nothing
                THEN as_bytes("\nparent ") \o to_hex_bytes(parent_commit[1])
                ELSE <<>>)
            \o as_bytes("\nauthor ") \o author_with_timestamp
            \o as_bytes("\ncommitter ") \o author_with_timestamp
            \o as_bytes("\n\n") \o message
    IN  [type |-> "commit", tree |-> tree, author |-> author, message |-> message,
         parent |-> parent_commit, timestamp |-> timestamp, offset |-> offset,
         id |-> from_sha_bytes(hash_bytes(to_object_format("commit", content)))[1],
         bytes |-> content]

\* GitObject::to_object_format.
GitObject_to_object_format(git_object) == to_object_format(git_object.type, git_object.bytes)

\* take_while: the items in front of the first one that is stop_byte, and the
\* items behind it (the iterator has consumed that one); all items and nothing
\* when there is none.
take_while(iter, stop_byte) ==
    LET stops == {i \in 1..Len(iter) : iter[i] = stop_byte}
        at == IF stops = {} THEN Len(iter) + 1
              ELSE CHOOSE i \in stops : \A k \in stops : i <= k
    IN  [taken |-> SubSeq(iter, 1, at - 1), rest |-> SubSeq(iter, at + 1, Len(iter))]

\* str::trim: without the white space at both ends.
trim(bytes) ==
    LET kept == {i \in 1..Len(bytes) : bytes[i] \notin {9, 10, 11, 12, 13, 32}}
    IN  IF kept = {} THEN <<>>
        ELSE SubSeq(bytes, CHOOSE i \in kept : \A k \in kept : i <= k,
                    CHOOSE i \in kept : \A k \in kept : i >= k)

\* parse_tree_entries with parse_tree_entry: for as long as bytes are left, a
\* mode up to a space, a name up to a zero byte and 20 bytes of id.  An unknown
\* mode panics, and so do fewer than 20 bytes of id.
RECURSIVE parse_tree_entries(_)
parse_tree_entries(content) ==
    LET mode_bytes == take_while(content, 32)
        name_bytes == take_while(mode_bytes.rest, 0)
        raw_object_id ==
            unhexlify(IF Len(name_bytes.rest) < 20 THEN name_bytes.rest
                      ELSE SubSeq(name_bytes.rest, 1, 20))
        object_id == from_sha_bytes(raw_object_id)
        modes == {m \in {<<"40000", "Directory">>, <<"100644", "Regular">>,
                         <<"100755", "Executable">>} : as_bytes(m[1]) = mode_bytes.taken}
        entries == parse_tree_entries(SubSeq(name_bytes.rest, 21, Len(name_bytes.rest)))
    IN  IF content = <<>> THEN [panic |-> FALSE, entries |-> <<>>]
        ELSE IF object_id = Nothing \/ modes = {} \/ entries.panic
        THEN [panic |-> TRUE, entries |-> <<>>]
        ELSE [panic |-> FALSE,
              entries |-> <<[name |-> name_bytes.taken, object_id |-> object_id[1],
                             mode |-> (CHOOSE m \in modes : TRUE)[2]]>> \o entries.entries]

\* parse_author_details: from the first space of the line on, the name is what
\* precedes "<" and the email what precedes ">", both trimmed; what follows up
\* to the next space is skipped, and the number up to the space after that is
\* the timestamp, 0 when it is no number.  The rest of the line is not read.
parse_author_details(author_line) ==
    LET chars == SubSeq(author_line, Len(take_while(author_line, 32).taken) + 1,
                        Len(author_line))
        name == take_while(chars, 60)
        email == take_while(name.rest, 62)
        timestamp == take_while(take_while(email.rest, 32).rest, 32).taken
        digits == IF timestamp # <<>> /\ timestamp[1] = 43 THEN Tail(timestamp) ELSE timestamp
        RECURSIVE value(_, _)
        value(i, acc) == IF i > Len(digits) THEN acc
                         ELSE value(i + 1, 10 * acc + digits[i] - 48)
    IN  [name |-> trim(name.taken), email |-> trim(email.taken),
         timestamp |-> IF digits # <<>> /\ \A i \in 1..Len(digits) : digits[i] \in 48..57
                       THEN value(1, 0) ELSE 0]

\* Commit::new as parse_commit calls it, without an offset: the offset of the
\* commit it makes is +0200.
Commit_new_without_offset(tree, author, message, parent_commit, timestamp) ==
    Commit_new(tree, author, message, parent_commit, timestamp, as_bytes("+0200"))

\* Database::parse_commit with parse_parent: the tree line, a parent line if
\* the second line starts with "parent", the author line, the committer line
\* and the empty line, which are skipped, and the message, which is the rest.
\* A second line that is neither a parent nor an author line panics, and so
\* does an id that is none.
parse_commit(content) ==
    LET tree_line == take_while(content, 10)
        author_or_parent_line == take_while(tree_line.rest, 10)
        line_start == take_while(author_or_parent_line.taken, 32).taken
        has_parent == line_start = as_bytes("parent")
        author_line == IF has_parent THEN take_while(author_or_parent_line.rest, 10)
                       ELSE author_or_parent_line
        from_sha_text(hex) ==
            IF from_hex_string(hex) = Nothing THEN Nothing
            ELSE from_sha_bytes(from_hex_string(hex)[1])
        skip_while_not_space(line) == SubSeq(line, Len(take_while(line, 32).taken) + 1, Len(line))
        parent_commit == from_sha_text(trim(skip_while_not_space(author_or_parent_line.taken)))
        author == parse_author_details(author_line.taken)
        skip(line) == IF line = <<>> THEN <<>> ELSE Tail(line)
        tree_object_id == from_sha_text(skip(skip_while_not_space(tree_line.taken)))
        empty_line == take_while(take_while(author_line.rest, 10).rest, 10)
    IN  IF \/ ~has_parent /\ line_start # as_bytes("author")
           \/ has_parent /\ parent_commit = Nothing
           \/ tree_object_id = Nothing
        THEN [panic |-> TRUE, commit |-> Nothing]
        ELSE [panic |-> FALSE,
              commit |-> Some(Commit_new_without_offset(
                             tree_object_id[1],
                             [name |-> author.name, email |-> author.email],
                             empty_line.rest,
                             IF has_parent THEN parent_commit ELSE Nothing,
                             author.timestamp))]

\* ------------------------------------------------------- the index on disk

\* Index::get_entries: the entries sorted by path.
get_entries(index) ==
    LET paths == sort_paths(DOMAIN index.entries)
    IN  [i \in 1..Len(paths) |-> index.entries[paths[i]]]

\* Index::as_vec: the header with the number of entries, the entries, and the
\* checksum of what precedes it.  A file is a sequence of such parts.
as_vec(index) ==
    LET entries == get_entries(index)
        body == <<<<"DIRC", Len(entries)>>>> \o
                [i \in 1..Len(entries) |-> <<"entry", entries[i].path, entries[i].object_id, entries[i].mtime>>]
    IN  body \o <<<<"checksum", sha1_hash(body)>>>>

\* Index::from_bytes: the entries the header announces are parsed and added
\* one by one; the checksum is not read.  Slicing past the end of the bytes
\* panics.
from_bytes(bytes) ==
    LET RECURSIVE parse_entry(_, _)
        parse_entry(i, index) ==
            IF i > bytes[1][2] THEN index
            ELSE parse_entry(i + 1,
                             add_entry(index,
                                       IndexEntry(bytes[i + 1][2], bytes[i + 1][3],
                                                  bytes[i + 1][4]),
                                       FALSE))
    IN  IF Len(bytes) = 0 \/ Len(bytes) < 1 + bytes[1][2]
        THEN [panic |-> TRUE, index |-> NewIndex]
        ELSE [panic |-> FALSE, index |-> parse_entry(1, NewIndex)]

\* Index::from_file: a missing file is an empty index.
from_file(files, path) ==
    IF path \in DOMAIN files THEN from_bytes(files[path])
    ELSE [panic |-> FALSE, index |-> NewIndex]

\* ------------------------------------------------ the index, byte by byte

\* u32::to_be_bytes and u16::to_be_bytes: the n bytes of a value, the most
\* significant first; to_be_u32 and to_be_u16: the value of such bytes.
to_be_bytes(value, n) ==
    LET RECURSIVE power(_)
        power(k) == IF k = 0 THEN 1 ELSE 256 * power(k - 1)
    IN  [i \in 1..n |-> (value \div power(n - i)) % 256]
RECURSIVE to_be(_)
to_be(bytes) ==
    IF bytes = <<>> THEN 0 ELSE 256 * to_be(SubSeq(bytes, 1, Len(bytes) - 1)) + bytes[Len(bytes)]

\* Mode::new: executable when the three bits 0o700 are all set, regular
\* otherwise.
Mode_new(actual_mode) ==
    IF (actual_mode \div 64) % 8 = 7
    THEN [file_mode |-> "Executable", raw_mode |-> 33261]
    ELSE [file_mode |-> "Regular", raw_mode |-> 33188]

\* IndexEntry::new, given what the metadata holds.
IndexEntry_new(path, object_id, metadata) ==
    [ctime_seconds |-> metadata.st_ctime, ctime_nanoseconds |-> metadata.st_ctime_nsec,
     mtime_seconds |-> metadata.st_mtime, mtime_nanoseconds |-> metadata.st_mtime_nsec,
     dev |-> metadata.st_dev, ino |-> metadata.st_ino, mode |-> Mode_new(metadata.st_mode),
     uid |-> metadata.st_uid, gid |-> metadata.st_gid, file_size |-> metadata.st_size,
     path |-> path, object_id |-> object_id]

\* Path::to_str: the components with a / between them; PathBuf::from: the
\* components of such a text.
RECURSIVE to_str(_)
to_str(path) ==
    IF Len(path) = 1 THEN path[1] ELSE path[1] \o "/" \o to_str(Tail(path))
RECURSIVE PathBuf_from(_)
PathBuf_from(bytes) ==
    LET component == take_while(bytes, 47)
    IN  (IF component.taken = <<>> THEN <<>> ELSE <<from_utf8(component.taken)>>)
        \o (IF component.rest = <<>> THEN <<>> ELSE PathBuf_from(component.rest))

\* IndexEntry::as_vec with pad_to_block_size: ten numbers of four bytes, the
\* 20 bytes of the id, the length of the path in two bytes, the path, a zero
\* byte, and zero bytes up to the next multiple of 8.
IndexEntry_as_vec(entry) ==
    LET path_bytes == as_bytes(to_str(entry.path))
        bytes ==
            to_be_bytes(entry.ctime_seconds, 4) \o to_be_bytes(entry.ctime_nanoseconds, 4)
            \o to_be_bytes(entry.mtime_seconds, 4) \o to_be_bytes(entry.mtime_nanoseconds, 4)
            \o to_be_bytes(entry.dev, 4) \o to_be_bytes(entry.ino, 4)
            \o to_be_bytes(entry.mode.raw_mode, 4)
            \o to_be_bytes(entry.uid, 4) \o to_be_bytes(entry.gid, 4)
            \o to_be_bytes(entry.file_size, 4)
            \o hexlify(entry.object_id)
            \o to_be_bytes(Len(path_bytes) % 65536, 2) \o path_bytes \o <<0>>
    IN  bytes \o [i \in 1..((8 - (Len(bytes) % 8)) % 8) |-> 0]

\* Index::as_vec: "DIRC", the version, the number of entries, the entries
\* sorted by path, and the sha1 of all that.
Index_as_vec(index) ==
    LET entries == get_entries(index)
        RECURSIVE extend(_)
        extend(i) == IF i > Len(entries) THEN <<>>
                     ELSE IndexEntry_as_vec(entries[i]) \o extend(i + 1)
        bytes == as_bytes("DIRC") \o <<0, 0, 0, 2>> \o to_be_bytes(Len(entries), 4)
                 \o extend(1)
    IN  bytes \o hash_bytes(bytes)

\* Mutant: the 20 bytes of the id are taken as they are.
Index_parse_entry_PackedId(bytes) ==
    LET u32(k) == to_be(SubSeq(bytes, 4 * k + 1, 4 * k + 4))
        path_size == to_be(SubSeq(bytes, 61, 62))
        unpadded_entry_size == 62 + path_size + 1
        entry_padding == IF unpadded_entry_size % 8 # 0 THEN 8 - (unpadded_entry_size % 8)
                         ELSE 0
    IN  [entry |-> [ctime_seconds |-> u32(0), ctime_nanoseconds |-> u32(1),
                    mtime_seconds |-> u32(2), mtime_nanoseconds |-> u32(3),
                    dev |-> u32(4), ino |-> u32(5), mode |-> Mode_new(u32(6)),
                    uid |-> u32(7), gid |-> u32(8), file_size |-> u32(9),
                    path |-> PathBuf_from(SubSeq(bytes, 63, 62 + path_size)),
                    object_id |-> SubSeq(bytes, 41, 60)],
         consumed_bytes |-> unpadded_entry_size + entry_padding]

\* Index::parse_entry: the entry at the start of the bytes and the number of
\* bytes it takes, padding included.
Index_parse_entry(bytes) ==
    LET u32(k) == to_be(SubSeq(bytes, 4 * k + 1, 4 * k + 4))
        path_size == to_be(SubSeq(bytes, 61, 62))
        unpadded_entry_size == 62 + path_size + 1
        entry_padding == IF unpadded_entry_size % 8 # 0 THEN 8 - (unpadded_entry_size % 8)
                         ELSE 0
    IN  [entry |-> [ctime_seconds |-> u32(0), ctime_nanoseconds |-> u32(1),
                    mtime_seconds |-> u32(2), mtime_nanoseconds |-> u32(3),
                    dev |-> u32(4), ino |-> u32(5), mode |-> Mode_new(u32(6)),
                    uid |-> u32(7), gid |-> u32(8), file_size |-> u32(9),
                    path |-> PathBuf_from(SubSeq(bytes, 63, 62 + path_size)),
                    object_id |-> unhexlify(SubSeq(bytes, 41, 60))],
         consumed_bytes |-> unpadded_entry_size + entry_padding]

\* Index::from_bytes: as many entries as the number behind the signature and
\* the version says are parsed and added to an empty index; the checksum is
\* not read.
Index_from_bytes(bytes, rev) ==
    LET num_entries == to_be(SubSeq(bytes, 9, 12))
        RECURSIVE parse_entries(_, _, _)
        parse_entries(i, position, index) ==
            IF i > num_entries THEN index
            ELSE parse_entries(
                     i + 1,
                     position + Index_parse_entry(SubSeq(bytes, position + 1, Len(bytes)))
                                    .consumed_bytes,
                     add_entry(index,
                               Index_parse_entry(SubSeq(bytes, position + 1, Len(bytes))).entry,
                               rev))
    IN  parse_entries(1, 12, NewIndex)

\* ------------------------------------------------------------------ diff
\* Positions are counted from 0, as in the code; a[x + 1] is the code's a[x].

\* get and set with adjust_index: a negative index counts from the end.  An
\* index outside the vector panics (has_index is false).
adjust_index(iterable, i) == IF i < 0 THEN Len(iterable) + i ELSE i
has_index(iterable, i) == adjust_index(iterable, i) \in 0..(Len(iterable) - 1)
get(iterable, i) == iterable[adjust_index(iterable, i) + 1]
set(iterable, i, value) == [iterable EXCEPT ![adjust_index(iterable, i) + 1] = value]

\* Edit::addition, Edit::deletion and Edit::equal.
Edit_addition(content, b_position) ==
    [content |-> content, a_position |-> Nothing, b_position |-> Some(b_position),
     kind |-> "Addition"]
Edit_deletion(content, a_position) ==
    [content |-> content, a_position |-> Some(a_position), b_position |-> Nothing,
     kind |-> "Deletion"]
Edit_equal(content, a_position, b_position) ==
    [content |-> content, a_position |-> Some(a_position), b_position |-> Some(b_position),
     kind |-> "Equal"]

\* compute_edit_path_graph: for d = 0, 1, ... and k = -d, -d + 2, ..., d the
\* furthest x on diagonal k is written to v; v is pushed to the trace after
\* every d, and when the ends of a and b are reached.
compute_edit_path_graph(a, b) ==
    LET max_depth == Len(a) + Len(b)
        RECURSIVE snake(_, _)
        snake(x, y) ==
            IF x < Len(a) /\ y < Len(b) /\ a[x + 1] = b[y + 1] THEN snake(x + 1, y + 1) ELSE x
        RECURSIVE search(_, _, _, _)
        reached(d, k, v, trace, x) ==
            IF x >= Len(a) /\ x - k >= Len(b)
            THEN [panic |-> FALSE, final_k |-> k, trace |-> Append(trace, set(v, k, x))]
            ELSE search(d, k + 2, set(v, k, x), trace)
        from(d, k, v, trace, x) == reached(d, k, v, trace, snake(x, x - k))
        search(d, k, v, trace) ==
            IF d >= Len(v) THEN [panic |-> TRUE, final_k |-> 0, trace |-> trace]
            ELSE IF k > d THEN search(d + 1, -(d + 1), v, Append(trace, v))
            ELSE IF \E i \in (IF k = -d THEN {k + 1} ELSE IF k = d THEN {k - 1}
                              ELSE {k - 1, k + 1}) : ~has_index(v, i)
            THEN [panic |-> TRUE, final_k |-> 0, trace |-> trace]
            ELSE IF k = -d \/ (k # d /\ get(v, k - 1) < get(v, k + 1))
            THEN from(d, k, v, trace, get(v, k + 1))
            ELSE from(d, k, v, trace, get(v, k - 1) + 1)
    IN  search(0, 0, [i \in 1..(2 * max_depth + 1) |-> 0], <<>>)

\* compute_previous_k.
compute_previous_k(k, d, v) ==
    IF k = -d THEN k + 1
    ELSE IF k = d THEN k - 1
    ELSE IF get(v, k - 1) < get(v, k + 1) THEN k + 1
    ELSE k - 1

\* trace_edit_points: the end point, then for d = trace.len() - 2 down to 0
\* the point on the diagonal compute_previous_k gives for trace[d].
trace_edit_points(final_k, trace) ==
    LET RECURSIVE back(_, _)
        point(d, k) == <<<<get(trace[d + 1], k), get(trace[d + 1], k) - k>>>> \o back(d - 1, k)
        back(d, k) ==
            IF d < 0 THEN <<>> ELSE point(d, compute_previous_k(k, d, trace[d + 1]))
    IN  <<<<get(trace[Len(trace)], final_k), get(trace[Len(trace)], final_k) - final_k>>>>
        \o back(Len(trace) - 2, final_k)

\* compute_edit_script: from the end point back to each previous point, Equal
\* edits for as long as both coordinates are larger, then one Deletion if x is
\* larger and one Addition if not; at the end Equal edits down to an axis.
\* The edits are reversed.
compute_edit_script(a, b, reversed_edit_points) ==
    LET RECURSIVE walk(_, _, _, _)
        walk(i, x, y, edits) ==
            IF i > Len(reversed_edit_points)
            THEN IF x > 0 /\ y > 0
                 THEN walk(i, x - 1, y - 1, <<Edit_equal(a[x], x - 1, y - 1)>> \o edits)
                 ELSE edits
            ELSE IF x > reversed_edit_points[i][1] /\ y > reversed_edit_points[i][2]
            THEN walk(i, x - 1, y - 1, <<Edit_equal(a[x], x - 1, y - 1)>> \o edits)
            ELSE IF x > reversed_edit_points[i][1]
            THEN walk(i + 1, x - 1, y, <<Edit_deletion(a[x], x - 1)>> \o edits)
            ELSE walk(i + 1, x, y - 1, <<Edit_addition(b[y], y - 1)>> \o edits)
    IN  walk(2, reversed_edit_points[1][1], reversed_edit_points[1][2], <<>>)

\* edit_script.
edit_script(a, b) ==
    LET traced(graph) ==
            IF graph.panic THEN [panic |-> TRUE, edits |-> <<>>]
            ELSE [panic |-> FALSE,
                  edits |-> compute_edit_script(
                                a, b, trace_edit_points(graph.final_k, graph.trace))]
    IN  traced(compute_edit_path_graph(a, b))

\* The number of context lines of a chunk.
MAX_DIFF_CONTEXT_LINES == 3

\* Chunk::new: the edits, and the lines of a and of b they span, counted from
\* 1, the end exclusive; 0 when no edit has a position in the sequence.
Chunk_new(edits) ==
    LET a_edits == {i \in 1..Len(edits) : edits[i].a_position # Nothing}
        b_edits == {i \in 1..Len(edits) : edits[i].b_position # Nothing}
        first(S) == CHOOSE i \in S : \A k \in S : i <= k
        final(S) == CHOOSE i \in S : \A k \in S : i >= k
    IN  [edits |-> edits,
         a_start |-> IF a_edits = {} THEN 0 ELSE edits[first(a_edits)].a_position[1] + 1,
         a_end |-> IF a_edits = {} THEN 0 ELSE edits[final(a_edits)].a_position[1] + 2,
         b_start |-> IF b_edits = {} THEN 0 ELSE edits[first(b_edits)].b_position[1] + 1,
         b_end |-> IF b_edits = {} THEN 0 ELSE edits[final(b_edits)].b_position[1] + 2]

\* should_show: every edit but a last one whose content is empty.
should_show(edit, position, edit_script_size) ==
    IF position < edit_script_size - 1 THEN TRUE ELSE edit.content # ""

\* drain_context_into_chunk: the last context_size edits of the context are
\* added to the chunk.
drain_context_into_chunk(context, chunk_content, context_size) ==
    chunk_content \o SubSeq(context,
                            (IF Len(context) > context_size THEN Len(context) - context_size
                             ELSE 0) + 1,
                            Len(context))

\* chunk_edit_script.  An Equal edit more than context_size behind the last
\* Deletion or Addition closes the chunk, if there is one, with the context
\* gathered; an Equal edit that is shown joins the context.  A Deletion or an
\* Addition drains the context into the chunk; the Addition joins the chunk,
\* the Deletion does if it is shown.  A chunk that is left at the end is closed
\* with the context drained into it.
chunk_edit_script(script, context_size) ==
    LET RECURSIVE loop(_, _, _, _, _)
        equal(i, chunks, chunk_content, context, last_mutating_edit_idx) ==
            loop(i + 1, chunks, chunk_content,
                 IF should_show(script[i + 1], i, Len(script))
                 THEN Append(context, script[i + 1]) ELSE context,
                 last_mutating_edit_idx)
        loop(i, chunks, chunk_content, context, last_mutating_edit_idx) ==
            IF i >= Len(script)
            THEN IF chunk_content # <<>>
                 THEN Append(chunks,
                             Chunk_new(drain_context_into_chunk(context, chunk_content,
                                                                context_size)))
                 ELSE chunks
            ELSE IF script[i + 1].kind = "Equal"
            THEN IF i - last_mutating_edit_idx > context_size /\ chunk_content # <<>>
                 THEN equal(i, Append(chunks, Chunk_new(chunk_content \o context)), <<>>, <<>>,
                            last_mutating_edit_idx)
                 ELSE equal(i, chunks, chunk_content, context, last_mutating_edit_idx)
            ELSE loop(i + 1, chunks,
                      drain_context_into_chunk(context, chunk_content, context_size)
                      \o (IF script[i + 1].kind = "Addition"
                             \/ should_show(script[i + 1], i, Len(script))
                          THEN <<script[i + 1]>> ELSE <<>>),
                      <<>>, i)
    IN  loop(0, <<>>, <<>>, <<>>, 0)

\* ObjectResolver::find_tree_by_path, for the resolver of a commit with the
\* given files (path |-> id and mode): the tree of the directory at the path,
\* looked up from the root tree one component at a time; an error (None) when
\* the path is no directory of the commit.
RECURSIVE find_tree_by_path(_, _)
find_tree_by_path(resolver, path) ==
    LET below == {file \in DOMAIN resolver :
                     Len(file) > Len(path) /\ SubSeq(file, 1, Len(path)) = path}
        names == {file[Len(path) + 1] : file \in below}
        entry(name) ==
            IF path \o <<name>> \in DOMAIN resolver
            THEN [name |-> as_bytes(name), object_id |-> resolver[path \o <<name>>].object_id,
                  mode |-> resolver[path \o <<name>>].mode]
            ELSE [name |-> as_bytes(name),
                  object_id |-> find_tree_by_path(resolver, path \o <<name>>)[1].id,
                  mode |-> "Directory"]
        RECURSIVE entries(_)
        entries(left) ==
            IF left = {} THEN <<>>
            ELSE <<entry(CHOOSE name \in left : TRUE)>>
                 \o entries(left \ {CHOOSE name \in left : TRUE})
    IN  IF below = {} /\ path # <<>> THEN Nothing ELSE Some(Tree_new(entries(names)))

\* compare_trees.  Equal trees have no changes.  An entry of lhs whose name rhs
\* has not is Deleted; one that rhs has with another id is Modified if both
\* are regular files, and is else compared as a subtree (None for an entry
\* that is no directory), with rhs's subtree given as lhs; an entry of rhs
\* whose name lhs has not is Created.
RECURSIVE compare_trees(_, _, _, _, _)
compare_trees(lhs, rhs, prefix, lhs_resolver, rhs_resolver) ==
    LET lhs_entries == IF lhs = Nothing THEN <<>> ELSE lhs[1].entries
        rhs_entries == IF rhs = Nothing THEN <<>> ELSE rhs[1].entries
        get_subtree(entry, resolver) ==
            IF entry.mode = "Directory"
            THEN find_tree_by_path(resolver, prefix \o <<from_utf8(entry.name)>>)
            ELSE Nothing
        change(entry, change_type) ==
            <<[path |-> prefix \o <<from_utf8(entry.name)>>, change_type |-> change_type,
               changed_in |-> "Worktree"]>>
        compared(lhs_entry, rhs_entry) ==
            IF lhs_entry.object_id = rhs_entry.object_id THEN <<>>
            ELSE IF lhs_entry.mode = "Regular" /\ rhs_entry.mode = "Regular"
            THEN change(lhs_entry, "Modified")
            ELSE compare_trees(get_subtree(rhs_entry, rhs_resolver),
                               get_subtree(lhs_entry, lhs_resolver),
                               prefix \o <<from_utf8(lhs_entry.name)>>,
                               lhs_resolver, rhs_resolver)
        RECURSIVE of_lhs(_)
        of_lhs(i) ==
            IF i > Len(lhs_entries) THEN <<>>
            ELSE (IF \E k \in 1..Len(rhs_entries) : rhs_entries[k].name = lhs_entries[i].name
                  THEN compared(lhs_entries[i],
                                rhs_entries[CHOOSE k \in 1..Len(rhs_entries) :
                                                rhs_entries[k].name = lhs_entries[i].name])
                  ELSE change(lhs_entries[i], "Deleted"))
                 \o of_lhs(i + 1)
        RECURSIVE of_rhs(_)
        of_rhs(i) ==
            IF i > Len(rhs_entries) THEN <<>>
            ELSE (IF \E k \in 1..Len(lhs_entries) : lhs_entries[k].name = rhs_entries[i].name
                  THEN <<>> ELSE change(rhs_entries[i], "Created"))
                 \o of_rhs(i + 1)
    IN  IF \/ lhs = Nothing /\ rhs = Nothing
           \/ lhs # Nothing /\ rhs # Nothing /\ lhs[1].id = rhs[1].id
        THEN <<>>
        ELSE of_lhs(1) \o of_rhs(1)

\* ---------------------------------------------------------- the repository

\* The files of <git_dir>.
index_file == <<"index">>
HEAD == <<"HEAD">>
COMMIT_EDITMSG == <<"COMMIT_EDITMSG">>

\* The number of hex digits of an id.
SHA1_SIZE == 40

\* What init writes to HEAD: "ref: refs/heads/" and the branch.
HeadContent == <<"ref: refs/heads/", "main">>

\* Repository::head: the content of HEAD without "ref: refs/heads/".
head(files) == files[HEAD][2]

\* Mutant: no name is rejected.
is_match_Never(ref_name) == FALSE

\* Regex::is_match for INVALID_BRANCH_NAME_PATTERN:
\* ^\.|\/\.|\.\.|^\/|\/$|\.lock$|@\{|[\x00-\x20*:?\[\\^~\x7F]
is_match(ref_name) ==
    LET n == Len(ref_name)
        At(i, sub) == i >= 1 /\ i + Len(sub) - 1 <= n /\ SubSeq(ref_name, i, i + Len(sub) - 1) = sub
        Contains(sub) == \E i \in 1..n : At(i, sub)
    IN  \/ At(1, ".")
        \/ Contains("/.")
        \/ Contains("..")
        \/ At(1, "/")
        \/ At(n, "/")
        \/ At(n - 4, ".lock")
        \/ Contains("@{")
        \/ \E c \in {" ", "\t", "\n", "*", ":", "?", "[", "\\", "^", "~"} : Contains(c)

\* RefHandler::get_ref_path: <git_dir>/refs/heads/<ref_name>.
get_ref_path(ref_name) == "refs/heads/" \o ref_name

\* A ref file has no extension: its name is one part.
ref_file(ref_name) == <<get_ref_path(ref_name)>>

\* The commits of the rev-parse scenarios: a chain, each commit the parent of
\* the next ("Initial commit", "Second commit", ...), all of the empty tree.
RECURSIVE ChainCommit(_)
ChainCommit(n) ==
    Commit(Tree(<<>>).id, SubSeq("bfcde", n, n),
           IF n = 1 THEN Nothing ELSE Some(ChainCommit(n - 1).id))

\* The objects of these scenarios.
ChainObjects == {ChainCommit(n) : n \in 1..MaxChain} \cup {Tree(<<>>), Blob("c1")}

\* Display for ObjectId: the 40 hex digits of an id, as they are printed,
\* typed on the command line and used for the name of the object file.  The
\* digits of the commits all start with 6 (as the ids of the ambiguity test do),
\* those of the empty tree with 4b.
ObjectId_to_string(object_id) ==
    LET object_format == object_id[2]
        digits == IF object_format[1] = "commit"
                  THEN "6" \o object_format[Len(object_format)][2]
                  ELSE IF object_format[1] = "tree" THEN "4b"
                  ELSE object_format[2]
    IN  digits \o SubSeq("0000000000000000000000000000000000000000", 1, SHA1_SIZE - Len(digits))

\* RefHandler::deref: HEAD is the branch in the HEAD file; a reference of 40
\* characters is taken as an id, any other as a branch whose ref file holds
\* the id.
deref(files, reference) ==
    LET name == IF reference = "HEAD" THEN head(files) ELSE reference
    IN  IF Len(name) = SHA1_SIZE
        THEN [ok |-> TRUE,
              object_id |-> (CHOOSE o \in ChainObjects : ObjectId_to_string(o.id) = name).id,
              message |-> <<>>]
        ELSE IF ref_file(name) \in DOMAIN files
        THEN [ok |-> TRUE, object_id |-> from_sha(files[ref_file(name)]), message |-> <<>>]
        ELSE [ok |-> FALSE, object_id |-> Nothing,
              message |-> <<"Could not dereference ref ", name>>]

\* Database::prefix_match, given the object files as read_dir lists them: the
\* id of the first one whose digits start with the short id, None if there is
\* none.  Whether other files match as well is not looked at.
prefix_match(listing, short_commit_id) ==
    LET starts_with(oid) == /\ Len(short_commit_id) <= Len(oid)
                            /\ SubSeq(oid, 1, Len(short_commit_id)) = short_commit_id
        hits == {i \in 1..Len(listing) : starts_with(listing[i])}
        first == CHOOSE i \in hits : \A k \in hits : i <= k
    IN  IF hits = {} THEN Nothing
        ELSE Some((CHOOSE o \in ChainObjects : ObjectId_to_string(o.id) = listing[first]).id)

\* Revision::parse: a trailing ^ makes a Parent, a trailing ~<digits> an
\* Ancestor with that count, of the revision in front of it; anything else is
\* a Reference unless INVALID_BRANCH_NAME_PATTERN matches it.  (The counts of
\* the revisions given here all fit the u32 they are parsed into.)
RECURSIVE parse(_)
parse(s) ==
    LET n == Len(s)
        char(i) == SubSeq(s, i, i)
        digit_of(c) == {d \in 0..9 : SubSeq("0123456789", d + 1, d + 1) = c}
        tildes == {i \in 1..(n - 1) :
                      char(i) = "~" /\ \A k \in (i + 1)..n : digit_of(char(k)) # {}}
        at == CHOOSE i \in tildes : TRUE
        RECURSIVE value(_, _)
        value(i, acc) ==
            IF i > n THEN acc
            ELSE value(i + 1, 10 * acc + (CHOOSE d \in digit_of(char(i)) : TRUE))
        count == value(at + 1, 0)
        nested == parse(SubSeq(s, 1, IF tildes # {} /\ char(n) # "^" THEN at - 1 ELSE n - 1))
        err == [ok |-> FALSE, revision |-> <<>>, message |-> <<"Invalid revision format: ", s>>]
    IN  IF n >= 1 /\ char(n) = "^"
        THEN IF nested.ok
             THEN [ok |-> TRUE, revision |-> <<"Parent", nested.revision>>, message |-> <<>>]
             ELSE nested
        ELSE IF tildes # {}
        THEN IF ~nested.ok THEN nested
             ELSE [ok |-> TRUE, revision |-> <<"Ancestor", nested.revision, count>>,
                   message |-> <<>>]
        ELSE IF ~is_match(s)
        THEN [ok |-> TRUE, revision |-> <<"Reference", s>>, message |-> <<>>]
        ELSE err

\* Revision::resolve.  A Parent is the parent of the commit its revision
\* resolves to.  An Ancestor takes the parent of that commit and then, for
\* each of 1..count (nothing when count is 0 or 1), the parent of the commit
\* it has reached.  A commit without parent is an error that names the
\* revision.
RECURSIVE resolve(_, _)
resolve(revision, disk) ==
    LET failed(message) == [ok |-> FALSE, object_id |-> Nothing, message |-> message]
        err == failed(<<"fatal: ambiguous argument '", revision[2], "': unknown revision">>)
        parent_of(oid) ==
            LET loaded == load_commit(disk.objects, oid)
            IN  IF loaded.panic THEN failed(<<"panic: failed to parse commit">>)
                ELSE IF ~loaded.ok THEN failed(<<"No such file or directory">>)
                ELSE IF loaded.commit.parent = Nothing THEN err
                ELSE [ok |-> TRUE, object_id |-> loaded.commit.parent[1], message |-> <<>>]
        RECURSIVE walk(_, _)
        walk(parent_oid, i) ==
            IF i >= revision[3] THEN parent_oid
            ELSE IF ~parent_oid.ok THEN parent_oid
            ELSE walk(parent_of(parent_oid.object_id), i + 1)
        oid == resolve(revision[2], disk)
    IN  IF revision[1] = "Reference" THEN deref(disk.files, revision[2])
        ELSE IF ~oid.ok THEN oid
        ELSE IF revision[1] = "Parent" THEN parent_of(oid.object_id)
        ELSE walk(parent_of(oid.object_id), 1)

\* RefHandler::write_ref.
write_ref(files, ref_name, object_id, ok) ==
    atomic_write(files, ref_file(ref_name), to_hex_string(object_id), ok)

\* Repository::load_index: the lock is taken, then the index file is parsed.
\* A panic in the parser unwinds through the LockFile, which is dropped.
load_index(files) ==
    LET got == acquire(files, index_file)
        parsed == from_file(got.files, index_file)
    IN  IF ~got.ok
        THEN [ok |-> FALSE, locked |-> FALSE, files |-> got.files, message |-> got.message,
              lock |-> None, index |-> NewIndex]
        ELSE IF parsed.panic
        THEN [ok |-> FALSE, locked |-> TRUE, files |-> drop(got.lock, got.files),
              message |-> "panic", lock |-> None, index |-> NewIndex]
        ELSE [ok |-> TRUE, locked |-> TRUE, files |-> got.files, message |-> None,
              lock |-> got.lock, index |-> parsed.index]

\* The worktree: its files, what they may hold, and the paths given to add
\* and rm.
WorkFiles == {<<"a">>, <<"b", "a">>}
Contents == {"c1", "c2"}
GITIGNORE == {<<"Cargo.lock">>, <<"target">>}
is_dir(path) == \E f \in WorkFiles : IsProperPrefix(path, f)

\* resolve_files: the files below a directory, or the path itself.
resolve_files(path) ==
    IF is_dir(path) THEN sort_paths({f \in WorkFiles : IsProperPrefix(path, f)})
    ELSE <<path>>

\* The file system and the object database as an operation sees them.
Disk(files, objects) == [files |-> files, objects |-> objects]

\* What an operation that holds the index lock returns: its result, the disk
\* it leaves, its LockFile, and what it printed.
Outcome(ok, disk, lock, index, output) ==
    [ok |-> ok, files |-> disk.files, objects |-> disk.objects, lock |-> lock,
     index |-> index, output |-> output]

\* LockFileResource::write and the write at the end of add and rm: the
\* index is serialised into the lockfile; the write stops after `written`
\* parts, with an error unless that is all of them.
write_index(lock, disk, index, written) ==
    LET bytes == as_vec(index)
        n == IF written < Len(bytes) THEN written ELSE Len(bytes)
        res == write(lock, disk.files, bytes, n)
    IN  Outcome(res.ok, Disk(res.files, disk.objects), res.lock, index, None)

\* add_file for each resolved file: the blob is stored and its entry added.
RECURSIVE add_files(_, _, _, _, _, _)
add_files(paths, index, objects, worktree, io_ok, rev) ==
    IF paths = <<>> THEN [ok |-> TRUE, index |-> index, objects |-> objects]
    ELSE LET blob == Blob(worktree[Head(paths)].content)
             stored == store_object(objects, blob, io_ok)
             index_entry == IndexEntry(Head(paths), blob.id, worktree[Head(paths)].mtime)
         IN  IF ~stored.ok THEN [ok |-> FALSE, index |-> index, objects |-> stored.objects]
             ELSE add_files(Tail(paths), add_entry(index, index_entry, rev),
                            stored.objects, worktree, io_ok, rev)

\* add, once the lock is held and the index read.
add(path, lock, index, disk, worktree, io_ok, written, rev) ==
    LET added == add_files(resolve_files(path), index, disk.objects, worktree, io_ok, rev)
    IN  IF ~added.ok
        THEN Outcome(FALSE, Disk(disk.files, added.objects), lock, added.index, None)
        ELSE write_index(lock, Disk(disk.files, added.objects), added.index, written)

\* rm, once the lock is held and the index read.
rm(path, lock, index, disk, written) ==
    write_index(lock, disk, remove(index, path), written)

\* Mutant: the trees below a subtree are not handed on.
RECURSIVE build_tree_from_tmp_entries_NoContainingTrees(_)
build_tree_from_tmp_entries_NoContainingTrees(entries) ==
    LET RECURSIVE loop(_, _, _)
        loop(i, tree_entries, trees) ==
            IF i > Len(entries) THEN [tree |-> Tree(tree_entries), trees |-> trees]
            ELSE IF Len(entries[i].path) = 1
            THEN loop(i + 1,
                      Append(tree_entries,
                             TreeEntry(entries[i].path, entries[i].object_id, "Regular")),
                      trees)
            ELSE LET prefix == entries[i].path[1]
                     j == CHOOSE j \in i..Len(entries) :
                              /\ \A k \in i..j : entries[k].path[1] = prefix
                              /\ j < Len(entries) => entries[j + 1].path[1] # prefix
                     tmp_entries == [k \in 1..(j - i + 1) |->
                                        [entries[i + k - 1] EXCEPT !.path = Tail(@)]]
                     built == build_tree_from_tmp_entries_NoContainingTrees(tmp_entries)
                 IN  loop(j + 1,
                          Append(tree_entries, TreeEntry(<<prefix>>, built.tree.id, "Directory")),
                          trees \o <<built.tree>>)
    IN  loop(1, <<>>, <<>>)

\* build_tree_from_tmp_entries: the root tree of the entries and the trees
\* below it.  Entries directly in the directory become entries of the tree;
\* a run of entries that share their first component becomes a tree of its
\* own, built from the paths without that component.
RECURSIVE build_tree_from_tmp_entries(_)
build_tree_from_tmp_entries(entries) ==
    LET RECURSIVE loop(_, _, _)
        loop(i, tree_entries, trees) ==
            IF i > Len(entries) THEN [tree |-> Tree(tree_entries), trees |-> trees]
            ELSE IF Len(entries[i].path) = 1
            THEN loop(i + 1,
                      Append(tree_entries,
                             TreeEntry(entries[i].path, entries[i].object_id, "Regular")),
                      trees)
            ELSE LET prefix == entries[i].path[1]
                     j == CHOOSE j \in i..Len(entries) :
                              /\ \A k \in i..j : entries[k].path[1] = prefix
                              /\ j < Len(entries) => entries[j + 1].path[1] # prefix
                     tmp_entries == [k \in 1..(j - i + 1) |->
                                        [entries[i + k - 1] EXCEPT !.path = Tail(@)]]
                     built == build_tree_from_tmp_entries(tmp_entries)
                 IN  loop(j + 1,
                          Append(tree_entries, TreeEntry(<<prefix>>, built.tree.id, "Directory")),
                          trees \o <<built.tree>> \o built.trees)
    IN  loop(1, <<>>, <<>>)

\* build_tree.
build_tree(entries) == build_tree_from_tmp_entries(entries)

\* write_commit_status: "[(root commit) <short id>] <first line>".
write_commit_status(commit) ==
    [root_commit_notice |-> IF commit.parent = Nothing THEN "(root commit) " ELSE "",
     short_id |-> commit.id,
     first_line |-> commit.message]

\* Mutant: the parent is never looked up.
create_commit_NoParent(index, disk, head_ref, io_ok) ==
    LET built == build_tree(get_entries(index))
        stored == store_all(disk.objects, built.trees \o <<built.tree>>, io_ok)
    IN  [ok |-> stored.ok, panic |-> COMMIT_EDITMSG \notin DOMAIN disk.files,
         objects |-> stored.objects,
         commit |-> Commit(built.tree.id,
                           IF COMMIT_EDITMSG \in DOMAIN disk.files
                           THEN disk.files[COMMIT_EDITMSG] ELSE "",
                           Nothing)]

\* create_commit with create_commit_with_tree: the trees are stored, the
\* parent is what the branch points to, if anything, and the message is read
\* from COMMIT_EDITMSG, which must exist.
create_commit(index, disk, head_ref, io_ok) ==
    LET built == build_tree(get_entries(index))
        stored == store_all(disk.objects, built.trees \o <<built.tree>>, io_ok)
        derefed == deref(disk.files, head_ref)
        parent_commit == IF derefed.ok THEN Some(derefed.object_id) ELSE Nothing
    IN  [ok |-> stored.ok, panic |-> COMMIT_EDITMSG \notin DOMAIN disk.files,
         objects |-> stored.objects,
         commit |-> Commit(built.tree.id,
                           IF COMMIT_EDITMSG \in DOMAIN disk.files
                           THEN disk.files[COMMIT_EDITMSG] ELSE "",
                           parent_commit)]

\* commit, once the lock is held and the index read.  failure names the
\* first I/O operation that fails, if any.
commit(lock, index, disk, failure) ==
    LET head_ref == head(disk.files)
        created == create_commit(index, disk, head_ref, failure # "store_object")
        stored == store_object(created.objects, created.commit, failure # "store_object")
        written == write_ref(disk.files, head_ref, created.commit.id, failure # "write_ref")
    IN  IF ~created.ok \/ created.panic
        THEN Outcome(FALSE, Disk(disk.files, created.objects), lock, index, None)
        ELSE IF ~stored.ok
        THEN Outcome(FALSE, Disk(disk.files, stored.objects), lock, index, None)
        ELSE IF failure = "write_ref"
        THEN Outcome(FALSE, Disk(written, stored.objects), lock, index, None)
        ELSE Outcome(TRUE, Disk(written, stored.objects), lock, index,
                     write_commit_status(created.commit))

\* resolve_committed_paths_and_ids: path -> id for the files of the tree of
\* the commit HEAD points to; empty when HEAD cannot be dereferenced.  Of two
\* pairs with the same path the later one stays in the map.
resolve_committed_paths_and_ids(disk) ==
    LET head_commit_id_opt == deref(disk.files, head(disk.files))
        loaded == load_commit(disk.objects, head_commit_id_opt.object_id)
        tree == load_tree(disk.objects, loaded.commit.tree)
        paths_in_head == extract_paths_from_tree(disk.objects, <<>>, tree.tree)
        acc == paths_in_head.accumulator
        Last(path) == CHOOSE i \in 1..Len(acc) :
                          /\ acc[i][2] = path
                          /\ \A k \in (i + 1)..Len(acc) : acc[k][2] # path
    IN  IF ~head_commit_id_opt.ok THEN [ok |-> TRUE, path_to_id |-> <<>>]
        ELSE IF ~loaded.ok \/ ~tree.ok \/ ~paths_in_head.ok
        THEN [ok |-> FALSE, path_to_id |-> <<>>]
        ELSE [ok |-> TRUE,
              path_to_id |-> [path \in {acc[i][2] : i \in 1..Len(acc)} |-> acc[Last(path)][1]]]

\* file::resolve_paths: no entry whose name is hidden or ignored is walked.
is_ignored(path) == \E i \in 1..Len(path) : <<path[i]>> \in GITIGNORE

\* resolve_tracked_paths: the paths of the index entries and of the files of
\* the last commit.
resolve_tracked_paths(path_to_committed_id, index) ==
    DOMAIN index.entries \cup DOMAIN path_to_committed_id

\* resolve_untracked.  The walk for directories yields the directories whose
\* parent is the root or a tracked directory and that are not tracked
\* themselves, and enters only the directories it yields; the walk for files
\* enters every directory and yields the files whose parent is the root or a
\* tracked directory and that are not tracked.
resolve_untracked(tracked_paths, worktree, index) ==
    LET dirs == {d \in Paths : \E f \in DOMAIN worktree : IsProperPrefix(d, f)}
        parent_is_tracked(path) ==
            Len(path) = 1 \/ is_tracked_directory(index, parent(path))
        passes(d) == parent_is_tracked(d) /\ ~is_tracked_directory(index, d) /\ ~is_ignored(d)
        walked(d) == \A k \in 1..(Len(d) - 1) : passes(SubSeq(d, 1, k))
        untracked_directories == {d \in dirs : walked(d) /\ passes(d)}
        untracked_files ==
            {f \in DOMAIN worktree :
                 ~is_ignored(f) /\ parent_is_tracked(f) /\ f \notin tracked_paths}
    IN  sort_paths(untracked_directories \cup untracked_files)

\* is_modified: a file with an index entry is modified when its mtime is not
\* the one of the entry and its content does not hash to the id of the entry;
\* when only the mtime differs the entry takes the mtime of the file.  The
\* metadata of a missing file cannot be read.
is_modified(worktree, tracked_path, index) ==
    IF ~has_entry(index, tracked_path)
    THEN [ok |-> TRUE, is_modified |-> FALSE, index |-> index]
    ELSE IF tracked_path \notin DOMAIN worktree
    THEN [ok |-> FALSE, is_modified |-> FALSE, index |-> index]
    ELSE LET index_entry == index.entries[tracked_path]
             metadata == worktree[tracked_path]
             mtimes_differ == index_entry.mtime # metadata.mtime
             current_object_id == Blob(metadata.content).id
         IN  IF mtimes_differ /\ current_object_id # index_entry.object_id
             THEN [ok |-> TRUE, is_modified |-> TRUE, index |-> index]
             ELSE IF mtimes_differ
             THEN [ok |-> TRUE, is_modified |-> FALSE,
                   index |-> [index EXCEPT !.entries[tracked_path].mtime = metadata.mtime]]
             ELSE [ok |-> TRUE, is_modified |-> FALSE, index |-> index]

\* resolve_unstaged_changes: the tracked paths that is_modified says are
\* modified (an error counts as not modified), then the tracked paths that do
\* not exist.  The index comes back with the mtimes is_modified has set.
RECURSIVE resolve_unstaged_changes(_, _, _)
resolve_unstaged_changes(tracked_paths, worktree, index) ==
    IF tracked_paths = <<>> THEN [changes |-> {}, index |-> index]
    ELSE LET path == Head(tracked_paths)
             checked == is_modified(worktree, path, index)
             rest == resolve_unstaged_changes(Tail(tracked_paths), worktree, checked.index)
             path_exists == path \in DOMAIN worktree
                            \/ \E f \in DOMAIN worktree : IsProperPrefix(path, f)
         IN  [changes |-> rest.changes
                          \cup (IF checked.ok /\ checked.is_modified
                                THEN {<<path, "Modified">>} ELSE {})
                          \cup (IF ~path_exists THEN {<<path, "Deleted">>} ELSE {}),
              index |-> rest.index]

\* resolve_staged_changes: the worktree files that have an index entry are
\* Created when the commit does not have them and Modified when it has them
\* with another id; the committed paths without an index entry are Deleted.
resolve_staged_changes(path_to_committed_id, worktree, index) ==
    LET staged_paths == {f \in DOMAIN worktree : has_entry(index, f) /\ ~is_ignored(f)}
        committed == DOMAIN path_to_committed_id
    IN  {<<path, "Modified">> : path \in
             {f \in staged_paths \cap committed :
                  path_to_committed_id[f] # index.entries[f].object_id}}
        \cup {<<path, "Created">> : path \in staged_paths \ committed}
        \cup {<<path, "Deleted">> : path \in {f \in committed : ~has_entry(index, f)}}

\* Change::porcelain_format: the character of the change type on the left
\* for a change in the index and on the right for one in the worktree, then
\* the path.  ChangeType::to_char is in the LET.
porcelain_format(change, changed_in) ==
    LET to_char == [Modified |-> "M", Deleted |-> "D", Created |-> "A"]
        character == to_char[change[2]]
        modification_shorthand ==
            IF changed_in = "Index" THEN character \o " " ELSE " " \o character
    IN  <<modification_shorthand, change[1]>>

\* write_porcelain on the unstaged changes chained with the staged ones: the
\* changes are sorted by path, two changes of one path staying in the order of
\* the chain, and written one per line; then print_paths writes a line per
\* untracked path, with a "/" after a directory.
write_porcelain(unstaged_changes, staged_changes, untracked_paths, untracked_directories) ==
    LET changed == sort_paths({change[1] : change \in unstaged_changes \cup staged_changes})
        LinesOf(changes, changed_in, path) ==
            LET of_path == {change \in changes : change[1] = path}
                RECURSIVE lines(_)
                lines(S) ==
                    IF S = {} THEN <<>>
                    ELSE LET change == CHOOSE c \in S : TRUE
                         IN  <<porcelain_format(change, changed_in)>> \o lines(S \ {change})
            IN  lines(of_path)
        RECURSIVE writeln(_)
        writeln(paths) ==
            IF paths = <<>> THEN <<>>
            ELSE LinesOf(unstaged_changes, "Worktree", Head(paths))
                 \o LinesOf(staged_changes, "Index", Head(paths))
                 \o writeln(Tail(paths))
    IN  writeln(changed)
        \o [i \in 1..Len(untracked_paths) |->
                <<"??", untracked_paths[i],
                  IF untracked_paths[i] \in untracked_directories THEN "/" ELSE "">>]

\* status, once the lock is held and the index read: the untracked paths, the
\* unstaged changes (which refresh mtimes in the index) and the staged changes
\* are resolved and printed, and the index is written back.
status(lock, index, disk, worktree, written) ==
    LET print(path_to_committed_id, tracked_paths, unstaged) ==
            LET untracked_paths == resolve_untracked(tracked_paths, worktree, index)
                staged_changes ==
                    resolve_staged_changes(path_to_committed_id, worktree, unstaged.index)
            IN  [staged_changes |-> staged_changes,
                 unstaged_changes |-> unstaged.changes,
                 untracked_paths |-> untracked_paths,
                 porcelain |-> write_porcelain(unstaged.changes, staged_changes,
                                               untracked_paths,
                                               {d \in Paths : d \notin DOMAIN worktree})]
        report(path_to_committed_id, tracked_paths, unstaged) ==
            [write_index(lock, disk, unstaged.index, written)
                 EXCEPT !.output = print(path_to_committed_id, tracked_paths, unstaged)]
        resolve_changes(path_to_committed_id, tracked_paths) ==
            report(path_to_committed_id, tracked_paths,
                   resolve_unstaged_changes(sort_paths(tracked_paths), worktree, index))
        run(resolved) ==
            IF ~resolved.ok THEN Outcome(FALSE, disk, lock, index, None)
            ELSE resolve_changes(resolved.path_to_id,
                                 resolve_tracked_paths(resolved.path_to_id, index))
    IN  run(resolve_committed_paths_and_ids(disk))

\* ------------------------------------------------------------------- state

VARIABLES
    index,      \* SpecIndex: the Index under test
    ops,        \* SpecIndex: number of calls made so far
    lastOp,     \* SpecIndex: the last call and the Index it was made on
    files,      \* the file system: file name -> content
    holder,     \* per process, the call it is inside: its LockFile or its position
    torn,       \* SpecLock: per path, whether it holds a partly written content
    last,       \* the last call made (acquire, drop, read, ...) and its outcome
    objects,    \* SpecRepo: the object formats stored in the database
    worktree,   \* the worktree: file -> its content and its mtime
    cmds,       \* SpecRepo: number of commands started so far
    clean       \* SpecRepo: a commit has returned and nothing was staged or edited since

indexVars == <<index, ops, lastOp>>
lockVars == <<files, holder, torn, last>>
repoVars == <<objects, worktree, cmds, clean>>
vars == <<indexVars, lockVars, repoVars>>

\* The state of the part of the model a specification leaves alone.
IdleIndex == index = NewIndex /\ ops = 0 /\ lastOp = [kind |-> "none"]
IdleLock ==
    /\ files = <<>>
    /\ holder = <<>>
    /\ torn = <<>>
    /\ last = [kind |-> "none"]
IdleRepo ==
    /\ objects = {}
    /\ worktree = <<>>
    /\ cmds = 0
    /\ clean = FALSE

\* ------------------------------------------------------------ SpecIndex

NoOp == [kind |-> "none"]

InitIndex ==
    /\ index = NewIndex
    /\ ops = 0
    /\ lastOp = NoOp
    /\ IdleLock
    /\ IdleRepo

\* index.add_entry(entry), for an entry at any path (the object id plays no
\* part in the bookkeeping) and either iteration order of the child sets.
AddEntry ==
    \E path \in Paths, oid \in {"o1"}, rev \in BOOLEAN :
        /\ ops < MaxOps
        /\ index' = add_entry(index, IndexEntry(path, oid, 0), rev)
        /\ ops' = ops + 1
        /\ lastOp' = [kind |-> "add", path |-> path, before |-> index]
        /\ UNCHANGED <<lockVars, repoVars>>

\* index.remove(path), for any path.
Remove ==
    \E path \in Paths :
        /\ ops < MaxOps
        /\ index' = remove(index, path)
        /\ ops' = ops + 1
        /\ lastOp' = [kind |-> "remove", path |-> path, before |-> index]
        /\ UNCHANGED <<lockVars, repoVars>>

NextIndex == AddEntry \/ Remove

SpecIndex == InitIndex /\ [][NextIndex]_vars

\* ---------------------------------- SpecIndexFile: the index written and read
\* Entries of files are added to an Index and removed from it, and the Index
\* is serialized and parsed.

\* What fs::metadata says of the files added, and the ids of their blobs (the
\* numbers all fit the u32 they are cast to): a regular file, an empty
\* executable one, and one that only its owner may execute.
Stats ==
    {[metadata |-> [st_ctime |-> 1666811962, st_ctime_nsec |-> 123456789,
                    st_mtime |-> 1666811963, st_mtime_nsec |-> 999999999,
                    st_dev |-> 2049, st_ino |-> 1234567, st_mode |-> 33188,
                    st_uid |-> 1000, st_gid |-> 100, st_size |-> 300],
      object_id |-> Blob_new(as_bytes("hello")).id],
     [metadata |-> [st_ctime |-> 1, st_ctime_nsec |-> 0, st_mtime |-> 0, st_mtime_nsec |-> 1,
                    st_dev |-> 66306, st_ino |-> 2, st_mode |-> 33261,
                    st_uid |-> 0, st_gid |-> 0, st_size |-> 0],
      object_id |-> Blob_new(<<>>).id],
     [metadata |-> [st_ctime |-> 256, st_ctime_nsec |-> 65536, st_mtime |-> 16777216,
                    st_mtime_nsec |-> 255, st_dev |-> 2049, st_ino |-> 1234568,
                    st_mode |-> 33216, st_uid |-> 1000, st_gid |-> 1000, st_size |-> 70000],
      object_id |-> Blob_new(<<0>>).id]}

\* index.add_entry(IndexEntry::new(path, object_id, metadata)), for a file in
\* the root directory or in one below it.
AddFile ==
    \E path \in {file \in Paths : Len(file) <= 2}, stat \in Stats, rev \in BOOLEAN :
        /\ ops < MaxOps
        /\ index' = add_entry(index, IndexEntry_new(path, stat.object_id, stat.metadata), rev)
        /\ ops' = ops + 1
        /\ lastOp' = [kind |-> "add", path |-> path, before |-> index]
        /\ UNCHANGED <<lockVars, repoVars>>

\* Index::from_bytes(&index.as_vec()).
FromBytes ==
    \E rev \in BOOLEAN :
        /\ lastOp' = [kind |-> "from_bytes", before |-> index,
                      index |-> Index_from_bytes(Index_as_vec(index), rev)]
        /\ UNCHANGED <<index, ops, lockVars, repoVars>>

NextIndexFile == AddFile \/ Remove \/ FromBytes

SpecIndexFile == InitIndex /\ [][NextIndexFile]_vars

\* -------------------------------------------------------------- SpecLock

\* The processes that take locks.
Procs == {"p1", "p2"}

\* The paths locks are taken on: the index (workspace.rs) and file.txt (the
\* tests of file.rs).
LockPaths == {<<"index">>, <<"file", "txt">>}

\* The texts a holder writes.
Texts == {<<1, 2>>}

\* What every path holds at the start.
InitialContent == <<0>>

\* What the test writes into the lockfile it makes by hand: ";".
HandWritten == <<59>>

NotHolding == [pc |-> "idle"]

OtherEvent == [kind |-> "other"]

\* The processes whose LockFile on path is alive.
Alive(path) == {p \in Procs : holder[p].pc = "holding" /\ holder[p].lock.path = path}

InitLock ==
    /\ IdleIndex
    /\ IdleRepo
    /\ files = [path \in LockPaths |-> InitialContent]
    /\ holder = [p \in Procs |-> NotHolding]
    /\ torn = [path \in LockPaths |-> FALSE]
    /\ last = [kind |-> "none"]

\* Mutant: a failed acquire drops a LockFile of its own, which deletes the
\* lockfile.
Acquire_DropsOnFailure(p, path) ==
    LET got == acquire(files, path)
    IN  /\ holder[p].pc = "idle"
        /\ files' = IF got.ok THEN got.files ELSE remove_file(files, lockfile_path(path))
        /\ holder' = [holder EXCEPT ![p] =
               IF got.ok
               THEN [pc |-> "holding", lock |-> got.lock, writes |-> 0,
                     written_ok |-> <<>>, any_ok |-> FALSE]
               ELSE NotHolding]
        /\ last' = [kind |-> "acquire", proc |-> p, path |-> path, ok |-> got.ok,
                    message |-> got.message,
                    others_alive |-> Alive(path) \ {p} # {},
                    lockfile_existed |-> lockfile_path(path) \in DOMAIN files,
                    untouched |-> \A f \in DOMAIN files : read_file(got.files, f) = files[f]]
        /\ UNCHANGED <<torn, indexVars, repoVars>>

\* A process calls LockFile::acquire(path).
Acquire(p, path) ==
    LET got == acquire(files, path)
    IN  /\ holder[p].pc = "idle"
        /\ files' = got.files
        /\ holder' = [holder EXCEPT ![p] =
               IF got.ok
               THEN [pc |-> "holding", lock |-> got.lock, writes |-> 0,
                     written_ok |-> <<>>, any_ok |-> FALSE]
               ELSE NotHolding]
        /\ last' = [kind |-> "acquire", proc |-> p, path |-> path, ok |-> got.ok,
                    message |-> got.message,
                    others_alive |-> Alive(path) \ {p} # {},
                    lockfile_existed |-> lockfile_path(path) \in DOMAIN files,
                    untouched |-> \A f \in DOMAIN files : read_file(got.files, f) = files[f]]
        /\ UNCHANGED <<torn, indexVars, repoVars>>

\* The holder calls LockFile::write(text); the write stops after `written`
\* bytes, with an error unless that is all of them.
Write(p, text, written) ==
    LET res == write(holder[p].lock, files, text, written)
    IN  /\ holder[p].pc = "holding"
        /\ holder[p].writes < MaxWrites
        /\ files' = res.files
        /\ holder' = [holder EXCEPT ![p] =
               [@ EXCEPT !.lock = res.lock,
                         !.writes = @ + 1,
                         !.written_ok = IF res.ok THEN @ \o text ELSE @,
                         !.any_ok = @ \/ res.ok]]
        /\ last' = OtherEvent
        /\ UNCHANGED <<torn, indexVars, repoVars>>

\* The holder's LockFile goes out of scope.  What the path holds afterwards is
\* torn if it is neither what it held before nor all of what the holder's
\* successful writes wrote.
Drop(p) ==
    LET lock == holder[p].lock
        after == drop(lock, files)
    IN  /\ holder[p].pc = "holding"
        /\ files' = after
        /\ holder' = [holder EXCEPT ![p] = NotHolding]
        /\ torn' = [torn EXCEPT ![lock.path] =
               IF read_file(after, lock.path) = read_file(files, lock.path) THEN @
               ELSE ~(holder[p].any_ok /\ read_file(after, lock.path) = holder[p].written_ok)]
        /\ last' = [kind |-> "drop", proc |-> p, path |-> lock.path,
                    any_ok |-> holder[p].any_ok,
                    before |-> read_file(files, lock.path),
                    lockfile_before |-> read_file(files, lock.lockfile_path),
                    after |-> read_file(after, lock.path),
                    lockfile_after |-> read_file(after, lock.lockfile_path)]
        /\ UNCHANGED <<indexVars, repoVars>>

\* A lockfile is written by hand, by something that holds no LockFile (the
\* arrangement of test_adding_file_when_index_is_locked).
WriteLockfileByHand(path) ==
    /\ lockfile_path(path) \notin DOMAIN files
    /\ files' = MapInsert(files, lockfile_path(path), HandWritten)
    /\ last' = OtherEvent
    /\ UNCHANGED <<holder, torn, indexVars, repoVars>>

\* A reader that takes no lock reads the path (Index::from_file in
\* load_index_unlocked).
ReadUnlocked(path) ==
    /\ last' = [kind |-> "read", path |-> path, content |-> read_file(files, path),
                torn |-> torn[path]]
    /\ UNCHANGED <<files, holder, torn, indexVars, repoVars>>

NextLock ==
    \/ \E p \in Procs, path \in LockPaths : Acquire(p, path)
    \/ \E p \in Procs, text \in Texts : \E written \in 0..Len(text) : Write(p, text, written)
    \/ \E p \in Procs : Drop(p)
    \/ \E path \in LockPaths : WriteLockfileByHand(path)
    \/ \E path \in LockPaths : ReadUnlocked(path)

SpecLock == InitLock /\ [][NextLock]_vars

\* -------------------------------------------------------------- SpecRepo

\* The paths given to add and to rm, and the messages given to commit (None:
\* no -m option).
AddPaths == {<<"a">>, <<"b">>, <<"target">>}
RmPaths == {<<"a">>, <<"b">>}
Messages == {None, "m1"}

\* The commands a process runs.
Commands ==
    [name : {"add"}, path : AddPaths, message : {None}]
    \cup [name : {"rm"}, path : RmPaths, message : {None}]
    \cup [name : {"commit"}, path : {<<>>}, message : Messages]
    \cup [name : {"status"}, path : {<<>>}, message : {None}]

\* The I/O operation that fails during a command, if any, other than the
\* write to the lockfile.
Failures == {"none", "store_object", "write_ref"}

\* The most parts an index file has: header, entries, checksum.
MaxParts == Cardinality(WorkFiles) + 2

\* The repository after init: HEAD points to main, nothing else is there.
InitRepo ==
    /\ IdleIndex
    /\ torn = <<>>
    /\ files = (HEAD :> HeadContent)
    /\ holder = [p \in Procs |-> NotHolding]
    /\ last = [kind |-> "none"]
    /\ objects = {}
    /\ worktree = [f \in WorkFiles |-> [content |-> "c1", mtime |-> 0]]
    /\ cmds = 0
    /\ clean = FALSE

\* A process starts a command, up to the point where it holds the index lock
\* and has read the index.  commit writes the message of -m to COMMIT_EDITMSG
\* first; add returns at once for an ignored path.  When the lock cannot be
\* taken the command ends with the error.
Start(p, command) ==
    LET ignored == command.name = "add" /\ command.path \in GITIGNORE
        written == IF command.name = "commit" /\ command.message # None
                   THEN MapInsert(files, COMMIT_EDITMSG, command.message)
                   ELSE files
    IN  /\ holder[p].pc = "idle"
        /\ cmds < MaxCmds
        /\ cmds' = cmds + 1
        /\ \E loaded \in {load_index(written)} :
               /\ files' = IF ignored THEN files ELSE loaded.files
               /\ holder' = IF ~ignored /\ loaded.ok
                            THEN [holder EXCEPT ![p] =
                                     [pc |-> "holding", lock |-> loaded.lock,
                                      command |-> command, index |-> loaded.index]]
                            ELSE holder
               /\ last' = [kind |-> "start", name |-> command.name,
                           ignored |-> ignored,
                           ok |-> ignored \/ loaded.ok,
                           message |-> IF ignored THEN None ELSE loaded.message,
                           held |-> \E q \in Procs \ {p} : holder[q].pc = "holding",
                           unchanged |-> files' = files]
        /\ UNCHANGED <<objects, worktree, clean, torn, indexVars>>

\* What the rest of the command of the process that holds the lock does.
\* failure names the I/O operation that fails, if any, and written the parts
\* of the index that reach the lockfile when it is the write that fails.  No
\* two files of the worktree collide, so the iteration order of the child
\* sets plays no part in add_entry.
Run(h, disk, failure, written) ==
    CASE h.command.name = "add" ->
             add(h.command.path, h.lock, h.index, disk, worktree,
                 failure # "store_object", written, FALSE)
      [] h.command.name = "rm" ->
             rm(h.command.path, h.lock, h.index, disk, written)
      [] h.command.name = "commit" ->
             commit(h.lock, h.index, disk, failure)
      [] OTHER ->
             status(h.lock, h.index, disk, worktree, written)

\* The process that holds the lock runs the rest of its command and returns;
\* its LockFile goes out of scope.
Complete(p, failure, written) ==
    /\ holder[p].pc = "holding"
    /\ \E out \in {Run(holder[p], Disk(files, objects), failure, written)} :
       \E after \in {drop(out.lock, out.files)} :
           /\ files' = after
           /\ objects' = out.objects
           /\ clean' = IF holder[p].command.name \in {"add", "rm"} THEN FALSE
                       ELSE IF holder[p].command.name = "commit" /\ out.ok THEN TRUE
                       ELSE clean
           /\ last' = [kind |-> "exit", name |-> holder[p].command.name,
                       ok |-> out.ok,
                       output |-> out.output,
                       lock_gone |-> holder[p].lock.lockfile_path \notin DOMAIN after,
                       rewritten |-> out.lock.has_write,
                       index_unchanged |->
                           /\ (index_file \in DOMAIN after) = (index_file \in DOMAIN files)
                           /\ index_file \in DOMAIN files =>
                                  after[index_file] = files[index_file],
                       visible |-> from_file(after, index_file) =
                                       [panic |-> FALSE, index |-> out.index],
                       ref_before |-> deref(files, head(files))]
    /\ holder' = [holder EXCEPT ![p] = NotHolding]
    /\ UNCHANGED <<worktree, cmds, torn, indexVars>>

\* A file of the worktree is edited: its content and its mtime change (the
\* clock has two values).
Edit(f, content) ==
    /\ worktree[f].content # content
    /\ worktree' = [worktree EXCEPT ![f] = [content |-> content, mtime |-> 1 - @.mtime]]
    /\ clean' = FALSE
    /\ last' = OtherEvent
    /\ UNCHANGED <<files, holder, objects, cmds, torn, indexVars>>

NextRepo ==
    \/ \E p \in Procs, command \in Commands : Start(p, command)
    \/ \E p \in Procs, failure \in Failures : Complete(p, failure, MaxParts)
    \/ \E p \in Procs, written \in 0..(MaxParts - 1) : Complete(p, "write", written)
    \/ \E f \in WorkFiles, content \in Contents : Edit(f, content)

SpecRepo == InitRepo /\ [][NextRepo]_vars

\* ------------------------------------------------ SpecStatus: rut status
\* status runs in a repository in which files were added, committed, edited,
\* touched and deleted: the index, the tree of the commit HEAD points to and
\* the worktree each hold any of the files, with any content.

\* StagedIndex(staged) is the index with an entry for the blob of staged[f],
\* with mtime 0, for every file f that staged has a content for.  The index
\* file is missing only where nothing was ever added.
InitStatus ==
    LET RECURSIVE add_all(_, _, _)
        add_all(paths, staged, staged_index) ==
            IF paths = <<>> THEN staged_index
            ELSE add_all(Tail(paths), staged,
                         add_entry(staged_index,
                                   IndexEntry(Head(paths), Blob(staged[Head(paths)]).id, 0),
                                   FALSE))
        StagedIndex(staged) ==
            add_all(sort_paths({f \in WorkFiles : staged[f] # None}), staged, NewIndex)
    IN
    \E staged \in [WorkFiles -> Contents \cup {None}],
       committed \in [WorkFiles -> Contents \cup {None}],
       has_commit \in BOOLEAN,
       index_written \in BOOLEAN,
       present \in SUBSET WorkFiles :
    \E made \in {create_commit(StagedIndex(committed),
                               Disk(HEAD :> HeadContent @@ COMMIT_EDITMSG :> "m1", {}),
                               "main", TRUE)} :
        /\ index_written
           \/ /\ \A f \in WorkFiles : staged[f] = None
              /\ ~has_commit \/ \A f \in WorkFiles : committed[f] = None
        /\ has_commit \/ \A f \in WorkFiles : committed[f] = None
        /\ files = (IF index_written
                    THEN index_file :> as_vec(StagedIndex(staged))
                    ELSE <<>>)
                   @@ (IF has_commit
                       THEN write_ref(HEAD :> HeadContent @@ COMMIT_EDITMSG :> "m1",
                                      "main", made.commit.id, TRUE)
                       ELSE HEAD :> HeadContent)
        /\ objects = {Blob(c).object_format : c \in Contents}
                     \cup (IF has_commit
                           THEN store_object(made.objects, made.commit, TRUE).objects
                           ELSE {})
        /\ worktree \in [present -> [content : Contents, mtime : {0, 1}]]
        /\ holder = [p \in Procs |-> NotHolding]
        /\ last = [kind |-> "none"]
        /\ cmds = 0
        /\ clean = FALSE
        /\ torn = <<>>
        /\ IdleIndex

NextStatus ==
    \/ \E p \in Procs : Start(p, [name |-> "status", path |-> <<>>, message |-> None])
    \/ \E p \in Procs : Complete(p, "none", MaxParts)
    \/ \E p \in Procs, written \in 0..(MaxParts - 1) : Complete(p, "write", written)

SpecStatus == InitStatus /\ [][NextStatus]_vars

\* ------------------------------------------- SpecStore: objects and refs
\* Two processes store objects and create refs.  Every system call of
\* Database::store_object and RefHandler::create_ref is a step of its own, so
\* that the calls of the two processes interleave.

\* Database::compress: the zlib stream of the object format.
compress(content) == <<"zlib", content>>

\* The object file of an object: objects/<dirname>/<filename>, made of the hex
\* digits of its id; the name has no extension.
object_filepath(git_object) == <<"objects/" \o git_object.object_format[2]>>

\* The objects stored and the ids given to create_ref.
StoreObjects == {Blob(c) : c \in Contents}

\* The branch names given to create_ref: names the pattern accepts, and a
\* name for each alternative of the pattern.
BranchNames ==
    {"new", "a.b",
     "../../etc/passwd", ".a", "a/.b", "a..b", "/a", "a/", "a.lock", "a@{1",
     "a b", "a*", "a:b", "a?", "a[", "a\\b", "a^", "a~1"}

\* The branch names get_ref_path rejects.
InvalidBranchNames == {b \in BranchNames : is_match(b)}

\* A process that is inside no call.
Idle == [pc |-> "idle", call |-> "none", path |-> <<>>, fd |-> <<>>, content |-> <<>>]

\* What `last` records of a step: the call it belongs to, the path the call
\* is about, whether that path existed when the call looked, whether the
\* call returned with this step, and its result.
Event(kind, p, path, found, returned, ok, message) ==
    [kind |-> kind, proc |-> p, path |-> path, found |-> found, returned |-> returned,
     ok |-> ok, message |-> message]

InitStore ==
    /\ IdleIndex
    /\ IdleRepo
    /\ files = (HEAD :> HeadContent)
    /\ holder = [p \in Procs |-> Idle]
    /\ torn = <<>>
    /\ last = [kind |-> "none"]

\* Database::store_object up to the test of object_filepath.exists(): the
\* call returns Ok when the object file is there, and goes on to atomic_write
\* when it is not.
StoreObject(p, git_object) ==
    LET object_filepath_ == object_filepath(git_object)
        compressed_bytes == compress(git_object.object_format)
        found == exists(files, object_filepath_)
    IN  /\ holder[p].pc = "idle"
        /\ cmds < MaxCmds
        /\ cmds' = cmds + 1
        /\ holder' = [holder EXCEPT ![p] =
                IF found THEN Idle
                ELSE [pc |-> "fs_write", call |-> "store_object", path |-> object_filepath_,
                      fd |-> <<>>, content |-> compressed_bytes]]
        /\ last' = Event("store_object", p, object_filepath_, found, found, TRUE, <<>>)
        /\ UNCHANGED <<indexVars, files, torn, objects, worktree, clean>>

\* fs::write in atomic_write, first half: File::create opens the buffer
\* file, creating it or truncating the one that is there.
FileCreate(p) ==
    /\ holder[p].pc = "fs_write"
    /\ files' = MapInsert(files, buffer_file(holder[p].path), <<>>)
    /\ holder' = [holder EXCEPT ![p].pc = "write_all", ![p].fd = buffer_file(holder[p].path)]
    /\ last' = Event(holder[p].call, p, holder[p].path, FALSE, FALSE, TRUE, <<>>)
    /\ UNCHANGED <<indexVars, torn, repoVars>>

\* write_all on the open file, of fs::write and of create_file: the bytes go
\* to the file the descriptor was opened on, wherever a rename has moved it
\* (nowhere visible if it was replaced).  create_file returns after it,
\* atomic_write goes on to the rename.
WriteAll(p) ==
    LET returns == holder[p].call = "create_ref"
    IN  /\ holder[p].pc = "write_all"
        /\ files' = IF holder[p].fd \in DOMAIN files
                    THEN [files EXCEPT ![holder[p].fd] = holder[p].content]
                    ELSE files
        /\ holder' = [holder EXCEPT ![p] =
                IF returns THEN Idle ELSE [holder[p] EXCEPT !.pc = "rename", !.fd = <<>>]]
        /\ last' = Event(holder[p].call, p, holder[p].path, FALSE, returns, TRUE, <<>>)
        /\ UNCHANGED <<indexVars, torn, repoVars>>

\* fs::rename(buffer_file, path) at the end of atomic_write, with which
\* store_object returns: the buffer file replaces the path, or the call fails
\* when there is no buffer file.  Open descriptors follow their file.
Rename(p) ==
    LET path == holder[p].path
        from == buffer_file(path)
        moved == from \in DOMAIN files
        follow(q) == IF holder[q].fd = from THEN path
                     ELSE IF holder[q].fd = path THEN <<"unlinked">>
                     ELSE holder[q].fd
    IN  /\ holder[p].pc = "rename"
        /\ files' = IF moved THEN rename(files, from, path) ELSE files
        /\ holder' = [q \in Procs |->
                IF q = p THEN Idle
                ELSE IF moved THEN [holder[q] EXCEPT !.fd = follow(q)]
                ELSE holder[q]]
        /\ last' = Event("store_object", p, path, FALSE, TRUE, moved,
                         IF moved THEN <<>> ELSE <<"No such file or directory">>)
        /\ UNCHANGED <<indexVars, torn, repoVars>>

\* RefHandler::create_ref up to the open of create_file: get_ref_path
\* rejects a name the pattern matches, create_new creates the ref file
\* unless it exists.
CreateRef(p, ref_name, object_id) ==
    LET ref_path == ref_file(ref_name)
        invalid == is_match(ref_name)
        opened == create_new(files, ref_path)
        message == IF invalid THEN <<"fatal: '", ref_name, "' is not a valid branch name">>
                   ELSE IF ~opened.ok
                   THEN <<"fatal: a branch named '", ref_name, "' already exists">>
                   ELSE <<>>
    IN  /\ holder[p].pc = "idle"
        /\ cmds < MaxCmds
        /\ cmds' = cmds + 1
        /\ files' = IF invalid THEN files ELSE opened.files
        /\ holder' = [holder EXCEPT ![p] =
                IF invalid \/ ~opened.ok THEN Idle
                ELSE [pc |-> "write_all", call |-> "create_ref", path |-> ref_path,
                      fd |-> ref_path, content |-> to_hex_string(object_id)]]
        /\ last' = Event("create_ref", p, ref_path, ~invalid /\ ~opened.ok,
                         invalid \/ ~opened.ok, ~invalid /\ opened.ok, message)
        /\ UNCHANGED <<indexVars, torn, objects, worktree, clean>>

NextStore ==
    \/ \E p \in Procs, git_object \in StoreObjects : StoreObject(p, git_object)
    \/ \E p \in Procs : FileCreate(p)
    \/ \E p \in Procs : WriteAll(p)
    \/ \E p \in Procs : Rename(p)
    \/ \E p \in Procs, ref_name \in BranchNames, git_object \in StoreObjects :
            CreateRef(p, ref_name, git_object.id)

SpecStore == InitStore /\ [][NextStore]_vars

\* ------------------------------------ SpecRefs: commits and branches
\* The processes of SpecRepo add and commit, and make branches as well.
\* create_ref is two steps, as in SpecStore: the ref file is created, then
\* written.

\* The start points given to branch: none (HEAD), and the 40 digits of an id.
StartPoints == {None, ObjectId_to_string(ChainCommit(1).id)}

\* branch, up to the open of create_file: the start point is resolved (HEAD
\* without one), get_ref_path rejects an invalid name, create_new creates
\* the ref file unless it exists.
branch(name, start_point, disk) ==
    LET parsed == parse(start_point)
        resolved == IF start_point = None THEN deref(disk.files, "HEAD")
                    ELSE IF parsed.ok THEN resolve(parsed.revision, disk)
                    ELSE [ok |-> FALSE, object_id |-> Nothing, message |-> parsed.message]
        opened == create_new(disk.files, ref_file(name))
    IN  IF ~resolved.ok \/ is_match(name)
        THEN [ok |-> FALSE, files |-> disk.files, object_id |-> Nothing]
        ELSE [ok |-> opened.ok, files |-> opened.files, object_id |-> resolved.object_id]

\* A process runs branch; when the ref file is created the write is left to do.
Branch(p, name, start_point) ==
    /\ holder[p].pc = "idle"
    /\ cmds < MaxCmds
    /\ cmds' = cmds + 1
    /\ \E out \in {branch(name, start_point, Disk(files, objects))} :
           /\ files' = out.files
           /\ holder' = [holder EXCEPT ![p] =
                   IF ~out.ok THEN NotHolding
                   ELSE [pc |-> "write_all", call |-> "create_ref", path |-> ref_file(name),
                         fd |-> ref_file(name), content |-> to_hex_string(out.object_id)]]
           /\ last' = [kind |-> "branch", name |-> name, start_point |-> start_point,
                       ok |-> out.ok]
    /\ UNCHANGED <<indexVars, torn, objects, worktree, clean>>

NextRefs ==
    \/ \E p \in Procs, command \in {c \in Commands : c.name \in {"add", "commit"}} :
            Start(p, command)
    \/ \E p \in Procs, failure \in Failures : Complete(p, failure, MaxParts)
    \/ \E p \in Procs, start_point \in StartPoints : Branch(p, "new", start_point)
    \/ \E p \in Procs : WriteAll(p)

SpecRefs == InitRepo /\ [][NextRefs]_vars

\* ------------------------------- SpecCommitTree: the tree of a commit
\* Entries are staged, then create_commit builds the trees of the index and
\* stores them.

InitCommitTree ==
    /\ index = NewIndex
    /\ ops = 0
    /\ lastOp = NoOp
    /\ files = (HEAD :> HeadContent) @@ (COMMIT_EDITMSG :> "m1")
    /\ holder = <<>>
    /\ torn = <<>>
    /\ last = [kind |-> "none"]
    /\ IdleRepo

\* add_file's index.add_entry, for a path of up to three components and
\* either blob.
StageEntry ==
    \E path \in {file \in Paths : Len(file) <= 3}, oid \in ObjectIds :
        /\ last.kind = "none"
        /\ ops < MaxOps
        /\ index' = add_entry(index, IndexEntry(path, oid, 0), FALSE)
        /\ ops' = ops + 1
        /\ UNCHANGED <<lastOp, lockVars, repoVars>>

\* create_commit on the index: the trees are built and stored.
CreateCommit ==
    /\ last.kind = "none"
    /\ \E created \in {create_commit(index, Disk(files, objects), head(files), TRUE)} :
           /\ objects' = created.objects
           /\ last' = [kind |-> "create_commit", tree |-> created.commit.tree,
                       trees |-> Len(build_tree(get_entries(index)).trees)]
    /\ UNCHANGED <<indexVars, files, holder, torn, worktree, cmds, clean>>

NextCommitTree == StageEntry \/ CreateCommit

SpecCommitTree == InitCommitTree /\ [][NextCommitTree]_vars

\* ------------------------------- SpecObjects: objects stored and loaded
\* An object is made, stored in an empty database and loaded by its id.

\* ObjectId::dirname and ObjectId::filename in the path of the object file.
Database_object_path(object_id) ==
    <<"objects/" \o to_hex_text(SubSeq(object_id, 1, 2)) \o "/"
      \o to_hex_text(SubSeq(object_id, 3, Len(object_id)))>>

\* Database::store_object: the compressed object format is written to the
\* object file unless that file exists.
Database_store_object(disk, git_object) ==
    LET content == GitObject_to_object_format(git_object)
        compressed_bytes == compress(content)
        path == Database_object_path(git_object.id)
    IN  IF ~exists(disk, path) THEN atomic_write(disk, path, compressed_bytes, TRUE)
        ELSE disk

\* Database::load_data: the decompressed bytes of the object file without the
\* type, which ends at the first space, and the size, which ends at the first
\* zero byte behind it.  The type is not looked at.
Database_load_data(disk, object_id) ==
    LET data == disk[Database_object_path(object_id)][2]
        object_type == take_while(data, 32)
        size == take_while(object_type.rest, 0)
    IN  size.rest

\* Database::load_blob, load_tree and load_commit.
Database_load_blob(disk, blob_id) ==
    [panic |-> FALSE, object |-> Blob_new(Database_load_data(disk, blob_id))]
Database_load_tree(disk, tree_id) ==
    LET tree_entries == parse_tree_entries(Database_load_data(disk, tree_id))
    IN  IF tree_entries.panic THEN [panic |-> TRUE, object |-> Nothing]
        ELSE [panic |-> FALSE, object |-> Tree_new(tree_entries.entries)]
Database_load_commit(disk, commit_id) ==
    LET parsed == parse_commit(Database_load_data(disk, commit_id))
    IN  IF parsed.panic THEN [panic |-> TRUE, object |-> Nothing]
        ELSE [panic |-> FALSE, object |-> parsed.commit[1]]

\* The objects made: blobs of no bytes, of text and of the bytes that delimit
\* the parts of the formats; trees of no entry, of one and of many, given in
\* any order, with every mode and with names that hold a space or a dot;
\* commits with and without a parent, made at several times in several time
\* zones (create_commit_with_tree takes the offset of the local time).
GitObjects ==
    LET BlobBytes == {<<>>, as_bytes("hello"), <<0>>, <<32, 0, 10>>, as_bytes("blob 1"),
                      <<255, 10>>}
        TreeEntries ==
            {[name |-> as_bytes("b.txt"), object_id |-> Blob_new(as_bytes("hello")).id,
              mode |-> "Regular"],
             [name |-> as_bytes("a b"), object_id |-> Blob_new(<<0>>).id,
              mode |-> "Executable"],
             [name |-> as_bytes("dir"), object_id |-> Tree_new(<<>>).id, mode |-> "Directory"],
             [name |-> as_bytes("a"), object_id |-> Blob_new(<<>>).id, mode |-> "Regular"]}
        RECURSIVE EntryLists(_)
        EntryLists(n) ==
            IF n = 0 THEN {<<>>}
            ELSE EntryLists(n - 1) \cup
                 {Append(entries, entry) : entries \in EntryLists(n - 1),
                                           entry \in TreeEntries}
        Authors == {[name |-> as_bytes("Ann Lee"), email |-> as_bytes("ann@example.com")]}
        CommitMessages == {<<>>, as_bytes("Initial commit\n"), as_bytes("One\n\nTwo")}
        Offsets == {as_bytes("+0200"), as_bytes("+0100"), as_bytes("-0530")}
    IN  {Blob_new(bytes) : bytes \in BlobBytes}
        \cup {Tree_new(entries) :
                 entries \in {e \in EntryLists(MaxEntries) :
                                 \A i, k \in 1..Len(e) : i # k => e[i].name # e[k].name}}
        \cup {Commit_new(Tree_new(<<>>).id, author, message, parent_commit, timestamp, offset) :
                 author \in Authors, message \in CommitMessages,
                 parent_commit \in {Nothing, Some(Blob_new(<<>>).id)},
                 timestamp \in {0, 1666811962}, offset \in Offsets}

InitObjects ==
    /\ IdleIndex
    /\ IdleRepo
    /\ files = <<>>
    /\ holder = <<>>
    /\ torn = <<>>
    /\ \E git_object \in GitObjects : last = [kind |-> "new", object |-> git_object]

\* Database::store_object of the object made.
DatabaseStore ==
    /\ last.kind = "new"
    /\ files' = Database_store_object(files, last.object)
    /\ last' = [kind |-> "stored", object |-> last.object, id |-> last.object.id]
    /\ UNCHANGED <<indexVars, repoVars, holder, torn>>

\* The load_ function of the object's type, given the id of the stored object.
DatabaseLoad ==
    /\ last.kind = "stored"
    /\ \E loaded \in {IF last.object.type = "blob" THEN Database_load_blob(files, last.id)
                      ELSE IF last.object.type = "tree" THEN Database_load_tree(files, last.id)
                      ELSE Database_load_commit(files, last.id)} :
          last' = [kind |-> "loaded", object |-> last.object, loaded |-> loaded]
    /\ UNCHANGED <<indexVars, repoVars, files, holder, torn>>

NextObjects == DatabaseStore \/ DatabaseLoad

SpecObjects == InitObjects /\ [][NextObjects]_vars

\* ------------------------------------------ SpecDiff: two sequences compared
\* edit_script is called on two sequences of lines.

\* The sequences of up to n lines, each one of two lines.
RECURSIVE LinesOfLen(_)
LinesOfLen(n) ==
    IF n = 0 THEN {<<>>}
    ELSE LinesOfLen(n - 1) \cup
         {Append(lines, line) : lines \in LinesOfLen(n - 1), line \in {"x", "y"}}

InitDiff ==
    /\ IdleIndex
    /\ IdleRepo
    /\ files = <<>>
    /\ holder = <<>>
    /\ torn = <<>>
    /\ \E a \in LinesOfLen(MaxLines), b \in LinesOfLen(MaxLines) :
          last = [kind |-> "lines", a |-> a, b |-> b]

\* edit_script(a, b).
EditScript ==
    /\ last.kind = "lines"
    /\ \E script \in {edit_script(last.a, last.b)} :
          last' = [kind |-> "edit_script", a |-> last.a, b |-> last.b,
                   panic |-> script.panic, edits |-> script.edits]
    /\ UNCHANGED <<indexVars, repoVars, files, holder, torn>>

NextDiff == EditScript

SpecDiff == InitDiff /\ [][NextDiff]_vars

\* ------------------------------------- SpecChunks: an edit script chunked
\* chunk_edit_script is called on an edit script, as diff_content does.

\* The edit scripts of n edits, the positions counted as edit_script counts
\* them; the content of the last edit may be the empty line that follows the
\* last newline of a file.
RECURSIVE EditScripts(_)
EditScripts(n) ==
    IF n = 0 THEN {<<>>}
    ELSE UNION {
        LET a_position == Cardinality({i \in 1..Len(script) : script[i].kind # "Addition"})
            b_position == Cardinality({i \in 1..Len(script) : script[i].kind # "Deletion"})
        IN  {Append(script, Edit_equal("line", a_position, b_position)),
             Append(script, Edit_deletion("line", a_position)),
             Append(script, Edit_addition("line", b_position))}
        : script \in EditScripts(n - 1)}

InitChunks ==
    /\ IdleIndex
    /\ IdleRepo
    /\ files = <<>>
    /\ holder = <<>>
    /\ torn = <<>>
    /\ \E n \in 1..MaxEdits : \E script \in EditScripts(n), content \in {"line", ""} :
          last = [kind |-> "edit_script",
                  edits |-> [script EXCEPT ![n] = [@ EXCEPT !.content = content]]]

\* chunk_edit_script(&edit_script, MAX_DIFF_CONTEXT_LINES).
ChunkEditScript ==
    /\ last.kind = "edit_script"
    /\ last' = [kind |-> "chunks", edits |-> last.edits,
                chunks |-> chunk_edit_script(last.edits, MAX_DIFF_CONTEXT_LINES)]
    /\ UNCHANGED <<indexVars, repoVars, files, holder, torn>>

NextChunks == ChunkEditScript

SpecChunks == InitChunks /\ [][NextChunks]_vars

\* ------------------------------ SpecTrees: the trees of two refs compared
\* compare_trees is called on the root trees of two commits, as diff_refs and
\* plan_switch call it.

\* The files of a commit: any of a file in the root directory and files one
\* and two directories deep, each a regular file with one of two contents or
\* an executable one.
CommitFiles ==
    LET first == Blob_new(as_bytes("First")).id
        second == Blob_new(as_bytes("Second")).id
    IN  UNION {[present -> {[object_id |-> first, mode |-> "Regular"],
                            [object_id |-> second, mode |-> "Regular"],
                            [object_id |-> second, mode |-> "Executable"]}] :
                  present \in SUBSET {<<"f">>, <<"d", "f">>, <<"d", "e", "f">>}}

InitTrees ==
    /\ IdleIndex
    /\ IdleRepo
    /\ files = <<>>
    /\ holder = <<>>
    /\ torn = <<>>
    /\ \E lhs \in CommitFiles, rhs \in CommitFiles :
          last = [kind |-> "refs", lhs |-> lhs, rhs |-> rhs]

\* compare_trees of the root trees of the two commits.
CompareTrees ==
    /\ last.kind = "refs"
    /\ last' = [kind |-> "changes", lhs |-> last.lhs, rhs |-> last.rhs,
                changes |-> compare_trees(find_tree_by_path(last.lhs, <<>>),
                                          find_tree_by_path(last.rhs, <<>>),
                                          <<>>, last.lhs, last.rhs)]
    /\ UNCHANGED <<indexVars, repoVars, files, holder, torn>>

NextTrees == CompareTrees

SpecTrees == InitTrees /\ [][NextTrees]_vars

\* ------------------------------------- SpecQuery: rev-parse and the loaders
\* A repository with a chain of up to MaxChain commits on main, and maybe a
\* branch new at one of them, is asked to resolve revisions and to load
\* objects.  Nothing is written: each query leaves its outcome in `last`.

\* The revisions given to rev-parse: HEAD, the branches, a full id, short
\* ids that one, several or no stored id starts with, and a name that is
\* not valid; alone and followed by ^ and ~<n>.
Revisions ==
    LET bases == {"HEAD", "main", "new", ObjectId_to_string(ChainCommit(2).id),
                  "6b", "4b", "6", "7", "/HEAD"}
        suffixes == {"", "^", "^^", "~1^"} \cup
                    {"~" \o SubSeq("0123456789", n + 1, n + 1) : n \in 0..MaxChain}
    IN  {base \o suffix : base \in bases, suffix \in suffixes}

\* What `last` records of a query.
Answer(kind, input, ok, panic, output, message) ==
    [kind |-> kind, input |-> input, ok |-> ok, panic |-> panic, output |-> output,
     message |-> message]

InitQuery ==
    /\ IdleIndex
    /\ \E n \in 0..MaxChain, k \in 0..MaxChain :
          LET main == IF n >= 1
                      THEN MapInsert(HEAD :> HeadContent, ref_file("main"),
                                     to_hex_string(ChainCommit(n).id))
                      ELSE HEAD :> HeadContent
          IN  /\ k <= n
              /\ files = IF k >= 1
                         THEN MapInsert(main, ref_file("new"), to_hex_string(ChainCommit(k).id))
                         ELSE main
              /\ objects = {ChainCommit(i).object_format : i \in 1..n}
                              \cup {Tree(<<>>).object_format, Blob("c1").object_format}
    /\ holder = <<>>
    /\ torn = <<>>
    /\ last = [kind |-> "none"]
    /\ worktree = <<>>
    /\ cmds = 0
    /\ clean = FALSE

\* rev_parse: the revision is parsed and resolved, and the id is printed.
RevParse(revision) ==
    \E parsed \in {parse(revision)} :
        \E oid \in {IF parsed.ok THEN resolve(parsed.revision, Disk(files, objects))
                    ELSE [ok |-> FALSE, object_id |-> Nothing, message |-> parsed.message]} :
            /\ last' = Answer("rev_parse", revision, oid.ok, FALSE,
                              IF oid.ok THEN ObjectId_to_string(oid.object_id) ELSE "",
                              oid.message)
            /\ UNCHANGED <<indexVars, files, holder, torn, repoVars>>

\* Database::prefix_match, with the object files listed in one order or in
\* the reverse of it.
PrefixMatch(short_commit_id, rev) ==
    LET all == [i \in 1..(MaxChain + 2) |->
                   IF i <= MaxChain THEN ChainCommit(i)
                   ELSE IF i = MaxChain + 1 THEN Tree(<<>>) ELSE Blob("c1")]
        stored(o) == o.object_format \in objects
        ordered == SelectSeq(IF rev THEN [i \in 1..Len(all) |-> all[Len(all) + 1 - i]] ELSE all,
                             stored)
        listing == [i \in 1..Len(ordered) |-> ObjectId_to_string(ordered[i].id)]
        found == prefix_match(listing, short_commit_id)
    IN  /\ last' = Answer("prefix_match", short_commit_id, found # Nothing, FALSE,
                          IF found # Nothing THEN ObjectId_to_string(found[1]) ELSE "", <<>>)
        /\ UNCHANGED <<indexVars, files, holder, torn, repoVars>>

\* Database::load_blob, load_tree or load_commit of the id of a stored object.
LoadObject(loader, git_object) ==
    LET loaded == IF loader = "blob" THEN load_blob(objects, git_object.id)
                  ELSE IF loader = "tree" THEN load_tree(objects, git_object.id)
                  ELSE load_commit(objects, git_object.id)
    IN  /\ git_object.object_format \in objects
        /\ last' = Answer("load", loader, loaded.ok, loaded.panic, git_object.object_format[1],
                          <<>>)
        /\ UNCHANGED <<indexVars, files, holder, torn, repoVars>>

NextQuery ==
    \/ \E revision \in Revisions : RevParse(revision)
    \/ \E short_commit_id \in {"6b", "4b", "6", "7"}, rev \in BOOLEAN :
            PrefixMatch(short_commit_id, rev)
    \/ \E loader \in {"blob", "tree", "commit"}, git_object \in ChainObjects :
            LoadObject(loader, git_object)

SpecQuery == InitQuery /\ [][NextQuery]_vars

\* ------------------------------------------------ claims on the LockFile

\* C1 as claimed: LockFile::acquire(p) succeeds if and only if no other
\* LockFile on p is alive, and at most one LockFile per path is alive.
C1_AcquireIffNoneAlive ==
    /\ \A path \in LockPaths : Cardinality(Alive(path)) <= 1
    /\ last.kind = "acquire" => (last.ok <=> ~last.others_alive)

\* C1 amended: LockFile::acquire(p) succeeds if and only if the lockfile of p
\* does not exist; a live LockFile keeps its lockfile in place, so an acquire
\* while another LockFile on p is alive fails and at most one LockFile per
\* path is alive at any time.
C1_MutualExclusion ==
    /\ \A path \in LockPaths :
           /\ Cardinality(Alive(path)) <= 1
           /\ Alive(path) # {} => lockfile_path(path) \in DOMAIN files
    /\ last.kind = "acquire" =>
           /\ last.ok <=> ~last.lockfile_existed
           /\ last.others_alive => ~last.ok

\* C1 witness: an acquire has just failed on a path whose LockFile another
\* process holds.
C1_Witness ==
    /\ last.kind = "acquire"
    /\ ~last.ok
    /\ last.others_alive
    /\ Cardinality(Alive(last.path)) = 1

\* C3 as claimed: every read of a path that takes no lock sees what the path
\* held before a holder started or all of what the holder wrote, never a
\* partly written content.
C3_NoTornRead ==
    last.kind = "read" => ~last.torn

\* C4 as claimed: when a LockFile goes out of scope its lockfile is renamed
\* onto the path if and only if at least one write on it succeeded; otherwise
\* the lockfile is deleted and the path keeps its content; either way the
\* lockfile is gone afterwards.
C4_RenameIffWriteSucceeded ==
    last.kind = "drop" =>
        /\ last.lockfile_after = NoFile
        /\ last.any_ok <=> last.after = last.lockfile_before
        /\ ~last.any_ok => last.after = last.before

\* -------------------------------------------- claims on the repository

\* C2 as claimed: an add (of a path that is not ignored), rm or commit
\* started while another process holds the index lock fails on acquire with
\* "Unable to create '<index>.lock': File exists." and changes nothing: the
\* index file, the lockfile, the refs and every other file are what they were.
C2_FailsWithoutMutation ==
    (last.kind = "start" /\ last.held /\ ~last.ignored
        /\ last.name \in {"add", "rm", "commit"}) =>
        /\ ~last.ok
        /\ last.message = <<"Unable to create '", <<"index", "lock">>, "': File exists.">>
        /\ last.unchanged

\* C5 as claimed: when an operation that holds the index lock returns, the
\* lockfile is gone; after a normal return the index file holds the index
\* the operation ended with, and after an error return (a failed write to
\* the lockfile included) the index file is exactly what it was before.
C5_VisibleIffCompleted ==
    last.kind = "exit" =>
        /\ last.lock_gone
        /\ last.ok => last.visible
        /\ ~last.ok => last.index_unchanged

\* C9: after a commit has returned normally, the ref file of the current
\* branch holds the id of the commit, the commit is stored, its parent is
\* what the branch pointed to just before, and the status line says
\* "(root commit)" exactly when the branch pointed to nothing.
C9_CommitMovesBranch ==
    (last.kind = "exit" /\ last.name = "commit" /\ last.ok) =>
        LET now == deref(files, head(files))
            loaded == load_commit(objects, now.object_id)
        IN  /\ now.ok
            /\ loaded.ok
            /\ now.object_id = last.output.short_id
            /\ loaded.commit.parent =
                   IF last.ref_before.ok THEN Some(last.ref_before.object_id) ELSE Nothing
            /\ (last.output.root_commit_notice = "(root commit) ") <=> ~last.ref_before.ok
            /\ ~last.ref_before.ok =>
                   \A i \in 2..Len(loaded.commit.object_format) :
                       loaded.commit.object_format[i][1] # "parent"

\* C9 witness: a second commit has returned; its parent is the root commit.
C9_Witness ==
    /\ last.kind = "exit"
    /\ last.name = "commit"
    /\ last.ok
    /\ last.ref_before.ok
    /\ last.output.root_commit_notice = ""
    /\ load_commit(objects, last.ref_before.object_id).commit.parent = Nothing

\* C10: a status that returns normally after a commit has returned, with
\* nothing added, removed or edited in between, reports no staged change.
C10_NothingStagedAfterCommit ==
    (last.kind = "exit" /\ last.name = "status" /\ last.ok /\ clean) =>
        last.output.staged_changes = {}

\* C10 witness: such a status has returned, and the commit it compared the
\* index against holds a file in a directory.
C10_Witness ==
    /\ last.kind = "exit"
    /\ last.name = "status"
    /\ last.ok
    /\ clean
    /\ <<"b", "a">> \in DOMAIN resolve_committed_paths_and_ids(Disk(files, objects)).path_to_id

\* --------------------------------------------------- claims on the Index

EntryPaths(i) == DOMAIN i.entries

\* The entries of i at or below path.
Below(i, path) ==
    {p \in EntryPaths(i) : p = path \/ IsProperPrefix(path, p)}

\* The last call was add_entry(q) on an Index holding an entry that is a
\* strict prefix or a strict extension of q.
CollidingAdd ==
    /\ lastOp.kind = "add"
    /\ \E p \in EntryPaths(lastOp.before) :
           IsProperPrefix(p, lastOp.path) \/ IsProperPrefix(lastOp.path, p)

\* C6: after any sequence of add_entry and remove calls no entry's path is a
\* proper prefix of another entry's path; and an add_entry(q) that collides
\* with entries that are strict prefixes or strict extensions of q leaves q
\* and none of them, every other entry being kept.
C6_NoPrefixCollision ==
    /\ \A p, q \in EntryPaths(index) : ~IsProperPrefix(p, q)
    /\ lastOp.kind = "add" =>
           /\ lastOp.path \in EntryPaths(index)
           /\ \A p \in EntryPaths(lastOp.before) :
                  IF IsProperPrefix(p, lastOp.path) \/ IsProperPrefix(lastOp.path, p)
                  THEN p \notin EntryPaths(index)
                  ELSE p \in EntryPaths(index)
           /\ EntryPaths(index) \subseteq EntryPaths(lastOp.before) \cup {lastOp.path}

\* C6 witness: add_entry(q) where q named a directory holding two entries,
\* one of them in a nested directory.
C6_Witness ==
    /\ lastOp.kind = "add"
    /\ \E p1, p2 \in EntryPaths(lastOp.before) :
           /\ IsProperPrefix(lastOp.path, p1)
           /\ IsProperPrefix(lastOp.path, p2)
           /\ Len(p1) < Len(p2)
    /\ EntryPaths(index) = {lastOp.path}

\* C7: for every entry at path p every proper ancestor a of p is a key of
\* the directory map and the name of a's child on the path to p is in
\* dirs[a].
C7_AncestorsTracked ==
    \A p \in EntryPaths(index) :
        \A n \in 0..(Len(p) - 1) :
            LET a == SubSeq(p, 1, n)
            IN  /\ a \in DOMAIN index.directories
                /\ p[n + 1] \in index.directories[a]

\* C7 witness: an add_entry that discarded a colliding file and left two
\* entries in nested directories.
C7_Witness ==
    /\ CollidingAdd
    /\ \E p \in EntryPaths(lastOp.before) : IsProperPrefix(p, lastOp.path)
    /\ \E p, q \in EntryPaths(index) : p # q /\ Len(p) = MaxDepth /\ Len(q) = MaxDepth

\* The child names the entries of i put below directory d.
ChildrenOf(i, d) ==
    {p[Len(d) + 1] : p \in {q \in EntryPaths(i) : IsProperPrefix(d, q)}}

\* C8: remove(path) takes the entry out and cleans the directory map on the
\* way up: no directory key is left with an empty set or without an entry
\* beneath it, each set names exactly the children the remaining entries have,
\* and removing the only entry of an Index yields the empty Index.
C8_RemoveCleansDirectories ==
    /\ \A d \in DOMAIN index.directories :
           /\ index.directories[d] # {}
           /\ index.directories[d] = ChildrenOf(index, d)
    /\ (lastOp.kind = "remove" /\ lastOp.path \in EntryPaths(lastOp.before)) =>
           /\ EntryPaths(index) = EntryPaths(lastOp.before) \ {lastOp.path}
           /\ EntryPaths(lastOp.before) = {lastOp.path} => index = NewIndex

\* C8 witness: the only entry, three directories deep, has just been removed.
C8_Witness ==
    /\ lastOp.kind = "remove"
    /\ EntryPaths(lastOp.before) = {lastOp.path}
    /\ Len(lastOp.path) = MaxDepth
    /\ index = NewIndex

\* -------------------------------------------- claims on objects and refs

\* C11: a store_object call that finds the object file of its id changes no
\* file and returns Ok at once: it writes neither the buffer file nor the
\* object file, so the object file is written only by calls that did not
\* find it.
C11_StoreIsIdempotent ==
    [][\A p \in Procs, o \in StoreObjects :
          (/\ holder[p].pc = "idle"
           /\ object_filepath(o) \in DOMAIN files
           /\ cmds' = cmds + 1
           /\ last'.kind = "store_object" /\ last'.proc = p
           /\ last'.path = object_filepath(o))
          => (/\ files' = files
              /\ holder'[p].pc = "idle"
              /\ last'.returned /\ last'.ok)]_vars

\* A store_object of an object whose complete file is on disk has returned.
C11_Witness ==
    /\ last.kind = "store_object" /\ last.found /\ last.returned /\ last.ok
    /\ \E o \in StoreObjects :
          /\ last.path = object_filepath(o)
          /\ files[last.path] = compress(o.object_format)

\* C12 as claimed: under every interleaving of two processes' stores of the
\* same object, every store_object that returns returns Ok, and the object
\* file, whenever it exists, holds the complete compressed bytes of the
\* object.
C12_ConcurrentStoresSafe ==
    /\ \A o \in StoreObjects :
          object_filepath(o) \in DOMAIN files
          => files[object_filepath(o)] = compress(o.object_format)
    /\ (last.kind = "store_object" /\ last.returned) => last.ok

\* C13: create_ref creates refs/heads/<name> exclusively.  A create_ref of a
\* valid name succeeds exactly if the ref file is not there when it opens it;
\* otherwise it fails with "fatal: a branch named '<name>' already exists"
\* and changes no file.  A ref file is never removed, the id it holds never
\* changes, and a ref file still empty has exactly one creator writing it:
\* of the creations of one name exactly one succeeds.
C13_CreateRefIsExclusive ==
    [][\A n \in BranchNames \ InvalidBranchNames :
          LET path == ref_file(n)
          IN  /\ path \in DOMAIN files
                 => /\ path \in DOMAIN files'
                    /\ files[path] # <<>> => files'[path] = files[path]
                    /\ Cardinality({p \in Procs : holder[p].fd = path})
                          = IF files[path] = <<>> THEN 1 ELSE 0
              /\ (/\ cmds' = cmds + 1
                  /\ last'.kind = "create_ref"
                  /\ last'.path = path)
                 => /\ last'.ok <=> path \notin DOMAIN files
                    /\ last'.ok => path \in DOMAIN files'
                    /\ ~last'.ok
                       => /\ files' = files
                          /\ last'.returned
                          /\ last'.message
                                = <<"fatal: a branch named '", n, "' already exists">>]_vars

\* A create_ref has failed on a ref file that the other process has created
\* and not yet written: the two creations race.
C13_Witness ==
    /\ last.kind = "create_ref" /\ last.returned /\ ~last.ok /\ last.found
    /\ files[last.path] = <<>>
    /\ \E p \in Procs : p # last.proc /\ holder[p].pc = "write_all" /\ holder[p].fd = last.path

C15_AncestorWalksNParents ==
    \A X \in {"HEAD", "main", "new"} :
        LET reference == IF X = "HEAD" THEN head(files) ELSE X
            t == CHOOSE i \in 1..MaxChain :
                    files[ref_file(reference)] = to_hex_string(ChainCommit(i).id)
            hops == IF last.input = X \o "^" THEN {1}
                    ELSE {N \in 0..MaxChain :
                             last.input = X \o "~" \o SubSeq("0123456789", N + 1, N + 1)}
        IN  (last.kind = "rev_parse" /\ ref_file(reference) \in DOMAIN files)
            => \A N \in hops :
                   /\ last.ok <=> t - N >= 1
                   /\ last.ok => last.output = ObjectId_to_string(ChainCommit(t - N).id)

\* C16 as claimed: a short id resolves, to the full id, exactly if one
\* stored id starts with it; otherwise rev-parse fails with "fatal:
\* ambiguous argument '<short>': unknown revision or path not in the working
\* tree." and prefix_match returns no id.
C16_ShortIdResolvesIffUnique ==
    \A short \in {"6b", "4b", "6", "7"} :
        LET matching == {o \in ChainObjects :
                            /\ o.object_format \in objects
                            /\ SubSeq(ObjectId_to_string(o.id), 1, Len(short)) = short}
        IN  (last.kind \in {"rev_parse", "prefix_match"} /\ last.input = short)
            => /\ last.ok <=> Cardinality(matching) = 1
               /\ last.ok => \E o \in matching : last.output = ObjectId_to_string(o.id)
               /\ (~last.ok /\ last.kind = "rev_parse")
                  => last.message = <<"fatal: ambiguous argument '", short,
                                      "': unknown revision or path not in the working tree.">>

\* C17 as claimed: a loader given the id of a stored object of another type
\* returns an error: it neither returns an object nor panics.
C17_LoadersCheckTheType ==
    (last.kind = "load" /\ last.input # last.output) => (~last.ok /\ ~last.panic)

\* ------------------------------------------------------- claims on status

\* C18: status changes the index only by refreshing mtimes.  After a status
\* that returns normally the index file holds the paths and the object ids
\* that were read; the mtime of an entry has changed only if it differed from
\* the mtime of the worktree file while the content of the file hashes to the
\* id of the entry; and the index file is rewritten only if the mtime of at
\* least one entry was refreshed.
C18_StatusOnlyRefreshesMtimes ==
    [][\A p \in Procs :
         (/\ holder[p].pc = "holding"
          /\ holder[p].command.name = "status"
          /\ holder'[p].pc = "idle"
          /\ last'.kind = "exit"
          /\ last'.ok) =>
             LET before == holder[p].index.entries
                 after == from_file(files', index_file).index.entries
                 refreshed == {path \in DOMAIN before \cap DOMAIN after :
                                   after[path].mtime # before[path].mtime}
             IN  /\ DOMAIN after = DOMAIN before
                 /\ \A path \in DOMAIN before :
                        after[path].object_id = before[path].object_id
                 /\ \A path \in refreshed :
                        /\ path \in DOMAIN worktree
                        /\ before[path].mtime # worktree[path].mtime
                        /\ Blob(worktree[path].content).id = before[path].object_id
                 /\ last'.rewritten => refreshed # {}]_vars

\* C19: the staged changes a status reports depend on the index and on the
\* tree of HEAD alone, whether the files are in the worktree or not: a path is
\* Modified iff the index and the tree have it with different ids, Created
\* iff only the index has it, Deleted iff only the tree has it, and is not
\* reported otherwise.
C19_StagedFromIndexAndHeadOnly ==
    (last.kind = "exit" /\ last.name = "status" /\ last.ok) =>
        LET entries == from_file(files, index_file).index.entries
            head_tree == resolve_committed_paths_and_ids(Disk(files, objects)).path_to_id
            reported == last.output.staged_changes
        IN  \A path \in Paths :
                /\ <<path, "Modified">> \in reported <=>
                       /\ path \in DOMAIN entries
                       /\ path \in DOMAIN head_tree
                       /\ head_tree[path] # entries[path].object_id
                /\ <<path, "Created">> \in reported <=>
                       (path \in DOMAIN entries /\ path \notin DOMAIN head_tree)
                /\ <<path, "Deleted">> \in reported <=>
                       (path \notin DOMAIN entries /\ path \in DOMAIN head_tree)

\* C20: the porcelain output of status has one line per changed path, made of
\* the character of its staged change (or a space), the character of its
\* unstaged change (or a space) and the path, so that a path changed in both
\* places has one line with both characters; every untracked path has a line
\* that starts with "??".
C20_OnePorcelainLinePerPath ==
    (last.kind = "exit" /\ last.name = "status" /\ last.ok) =>
        LET lines == last.output.porcelain
            staged == last.output.staged_changes
            unstaged == last.output.unstaged_changes
            to_char == [Modified |-> "M", Deleted |-> "D", Created |-> "A"]
            Character(changes, path) ==
                IF \E change \in changes : change[1] = path
                THEN to_char[(CHOOSE change \in changes : change[1] = path)[2]]
                ELSE " "
            LinesOf(path) == {i \in 1..Len(lines) : lines[i][1] # "??" /\ lines[i][2] = path}
        IN  /\ \A path \in {change[1] : change \in staged \cup unstaged} :
                   /\ Cardinality(LinesOf(path)) = 1
                   /\ \A i \in LinesOf(path) :
                          lines[i][1] = Character(staged, path) \o Character(unstaged, path)
            /\ \A i \in 1..Len(last.output.untracked_paths) :
                   \E k \in 1..Len(lines) :
                       lines[k][1] = "??" /\ lines[k][2] = last.output.untracked_paths[i]


\* C21: an object loaded by the id that storing it returned is the object
\* stored: the load succeeds, and the loaded object has the same object format,
\* byte by byte, and the same id.
C21_ObjectRoundTrip ==
    last.kind = "loaded" =>
        /\ ~last.loaded.panic
        /\ GitObject_to_object_format(last.loaded.object)
               = GitObject_to_object_format(last.object)
        /\ last.loaded.object.id = last.object.id

\* C22: parsing the bytes an Index is serialized to gives an equal Index: the
\* same entries, field by field, and the same directory map.
C22_IndexRoundTrip ==
    lastOp.kind = "from_bytes" => lastOp.index = lastOp.before

\* An Index of several entries at several depths, whose serialized entries
\* are padded and not padded, has been written and read.
C22_Witness ==
    /\ lastOp.kind = "from_bytes"
    /\ lastOp.index = lastOp.before
    /\ \E p, q \in DOMAIN index.entries :
          /\ Len(p) = 1 /\ Len(q) >= 2
          /\ Len(IndexEntry_as_vec(index.entries[p])) = 64
          /\ Len(IndexEntry_as_vec(index.entries[q])) = 72
          /\ index.entries[p].mode.file_mode # index.entries[q].mode.file_mode

\* The contents of the edits of some kinds, in the order of the script.
ContentOf(edits, kinds) ==
    LET RECURSIVE select(_)
        select(i) == IF i > Len(edits) THEN <<>>
                     ELSE (IF edits[i].kind \in kinds THEN <<edits[i].content>> ELSE <<>>)
                          \o select(i + 1)
    IN  select(1)

\* The length of the longest common subsequence of the first i elements of a
\* and the first k of b.
RECURSIVE LCS(_, _, _, _)
LCS(a, b, i, k) ==
    IF i = 0 \/ k = 0 THEN 0
    ELSE IF a[i] = b[k] THEN LCS(a, b, i - 1, k - 1) + 1
    ELSE IF LCS(a, b, i - 1, k) >= LCS(a, b, i, k - 1) THEN LCS(a, b, i - 1, k)
    ELSE LCS(a, b, i, k - 1)

\* C23: edit_script(a, b) returns a script that turns a into b: its Equal and
\* Deletion edits are a, in order, and its Equal and Addition edits are b.
C23_EditScriptTurnsAIntoB ==
    last.kind = "edit_script" =>
        /\ ~last.panic
        /\ ContentOf(last.edits, {"Equal", "Deletion"}) = last.a
        /\ ContentOf(last.edits, {"Equal", "Addition"}) = last.b

\* C24: the script has |a| + |b| - 2 LCS(a, b) Deletion and Addition edits and
\* LCS(a, b) Equal edits.
C24_EditScriptIsMinimal ==
    last.kind = "edit_script" /\ ~last.panic =>
        /\ Len(ContentOf(last.edits, {"Deletion", "Addition"}))
               = Len(last.a) + Len(last.b) - 2 * LCS(last.a, last.b, Len(last.a), Len(last.b))
        /\ Len(ContentOf(last.edits, {"Equal"}))
               = LCS(last.a, last.b, Len(last.a), Len(last.b))

\* The number of times the edit at place i of the script is in a chunk.
TimesInChunks(i) ==
    LET RECURSIVE count(_)
        count(c) ==
            IF c > Len(last.chunks) THEN 0
            ELSE Cardinality({k \in 1..Len(last.chunks[c].edits) :
                                 last.chunks[c].edits[k] = last.edits[i]})
                 + count(c + 1)
    IN  count(1)

\* An edit of the script is a Deletion or an Addition at most C places away.
NearMutation(i) ==
    \E k \in 1..Len(last.edits) :
        /\ last.edits[k].kind # "Equal"
        /\ i - k <= MAX_DIFF_CONTEXT_LINES
        /\ k - i <= MAX_DIFF_CONTEXT_LINES

ChangesOf(path) ==
    LET RECURSIVE select(_)
        select(i) == IF i > Len(last.changes) THEN <<>>
                     ELSE (IF last.changes[i].path = path
                           THEN <<last.changes[i].change_type>> ELSE <<>>)
                          \o select(i + 1)
    IN  select(1)

\* C26: comparing the root trees of two commits emits exactly one change for
\* every file path that differs, Created for a file of the second commit
\* alone, Deleted for a file of the first alone, Modified for a file of both
\* with different ids, and nothing for any other path.
C26_OneChangePerChangedFile ==
    last.kind = "changes" =>
        /\ \A path \in DOMAIN last.lhs \cup DOMAIN last.rhs :
              ChangesOf(path) =
                  IF path \notin DOMAIN last.lhs THEN <<"Created">>
                  ELSE IF path \notin DOMAIN last.rhs THEN <<"Deleted">>
                  ELSE IF last.lhs[path].object_id # last.rhs[path].object_id
                  THEN <<"Modified">>
                  ELSE <<>>
        /\ \A i \in 1..Len(last.changes) :
              last.changes[i].path \in DOMAIN last.lhs \cup DOMAIN last.rhs

\* The tree of an id and all the trees below it are in the database.
RECURSIVE TreesPresent(_)
TreesPresent(tree_id) ==
    /\ tree_id[2] \in objects
    /\ tree_id[2][1] = "tree"
    /\ \A i \in 1..Len(load_tree(objects, tree_id).tree.entries) :
          LET entry == load_tree(objects, tree_id).tree.entries[i]
          IN  entry.mode = "Directory" => TreesPresent(entry.object_id)

\* C27: whatever commits and branches have run, failed or been left half
\* done, every ref file under refs/heads holds the id of a commit that is in
\* the database together with its root tree and all the trees below it.
C27_RefIntegrity ==
    \A name \in {"main", "new"} :
        ref_file(name) \in DOMAIN files =>
            /\ files[ref_file(name)] # <<>>
            /\ LET object_id == from_sha(files[ref_file(name)])
               IN  /\ object_id[2] \in objects
                   /\ object_id[2][1] = "commit"
                   /\ TreesPresent(load_commit(objects, object_id).commit.tree)

\* C28: no update of the index is lost.  The index a process works on under
\* the lock is the one the index file holds, which nothing changes while the
\* lock is held; an add, rm or status that returns normally leaves its index
\* in the index file, and one that fails leaves the index file as the one
\* before it wrote it.
C28_NoLostIndexUpdate ==
    /\ \A p \in Procs :
          holder[p].pc = "holding" =>
              from_file(files, index_file) = [panic |-> FALSE, index |-> holder[p].index]
    /\ (last.kind = "exit" /\ last.name \in {"add", "rm", "status"}) =>
          IF last.ok THEN last.visible ELSE last.index_unchanged

\* The (id, path) pairs of the files of the root tree create_commit stored.
ExtractedFromCommit ==
    extract_paths_from_tree(objects, <<>>, load_tree(objects, last.tree).tree)

\* C29: the files extracted from the root tree that commit built are the
\* entries of the index, path by path and id by id, each once, and the
\* commit has one tree for every directory of the index.
C29_CommitSnapshotFidelity ==
    last.kind = "create_commit" =>
        /\ load_tree(objects, last.tree).ok
        /\ ExtractedFromCommit.ok
        /\ {ExtractedFromCommit.accumulator[i] :
                i \in 1..Len(ExtractedFromCommit.accumulator)}
             = {<<index.entries[path].object_id, path>> : path \in DOMAIN index.entries}
        /\ Len(ExtractedFromCommit.accumulator) = Cardinality(DOMAIN index.entries)
        /\ last.trees = Cardinality(UNION {{SubSeq(path, 1, k) : k \in 1..(Len(path) - 1)} :
                                               path \in DOMAIN index.entries})

\* C29's case: a commit of a file in the root directory, a file in a
\* directory and a file with another id in a directory of that directory.
C29_Witness ==
    /\ last.kind = "create_commit"
    /\ \E p, q, r \in DOMAIN index.entries :
          /\ Len(p) = 1 /\ Len(q) = 2 /\ Len(r) = 3
          /\ index.entries[q].object_id # index.entries[r].object_id

\* C30: an acquire that fails changes no file, neither the lockfile it found
\* nor the path, and no LockFile: whoever holds the lock holds it as before.
\* And when a holder's LockFile goes out of scope its lockfile is still
\* there: it is renamed onto the path if the holder wrote, deleted if not.
C30_FailedAcquireHarmless ==
    [][/\ (last'.kind = "acquire" /\ ~last'.ok) =>
              /\ files' = files
              /\ holder' = holder
              /\ lockfile_path(last'.path) \in DOMAIN files'
       /\ last'.kind = "drop" =>
              LET lock == holder[last'.proc].lock
              IN  /\ lock.lockfile_path \in DOMAIN files
                  /\ lock.lockfile_path \notin DOMAIN files'
                  /\ files'[lock.path] = IF lock.has_write THEN files[lock.lockfile_path]
                                         ELSE files[lock.path]]_vars

\* C30's case: an acquire has just failed on a path whose holder has written
\* to its lockfile.
C30_Witness ==
    /\ last.kind = "acquire"
    /\ ~last.ok
    /\ \E p \in Alive(last.path) \ {last.proc} :
          /\ holder[p].lock.has_write
          /\ files[holder[p].lock.lockfile_path] # <<>>

====
